---------------------------- MODULE Spec2Model ----------------------------
(***************************************************************************)
(* Model of the XRPL collector (src/src/collector.py) with its document    *)
(* store (src/src/mongo_client.py) and its transaction analysis            *)
(* (src/src/utils/transaction_processor.py).                               *)
(*                                                                         *)
(* A ledger history is a finite list of transactions; the node shows the   *)
(* part of it that is validated (ledger_index <= tip).  The driver runs    *)
(* cycles: every wallet of every user is polled (paginated account_tx),    *)
(* each returned transaction goes through _process_transaction, and then   *)
(* the open orders are reconciled against account_offers.                  *)
(*                                                                         *)
(* Amount values are integers: drops for XRP, units for issued tokens.     *)
(* Documents of the store are functions from field names to values, and    *)
(* a collection is a function from the unique key (hash) to documents.     *)
(***************************************************************************)
EXTENDS Integers, Sequences, FiniteSets, TLC

(***************************************************************************)
(* Bounds of the model.                                                    *)
(***************************************************************************)
MaxCycles == 3
MaxHist == 3
MaxNodeFailures == 3
\* the limit of one AccountTx page, "limit=400", scaled down
PageLimit == 2

(***************************************************************************)
(* Program constants.                                                      *)
(***************************************************************************)
\* config.FROM_LEDGER, the configured floor of the wallet cursor (set by the
\* environment; the ledgers of the model are numbered from it)
FROM_LEDGER == 1
\* the retry limit of the pagination loop, "retries < 3"
RetryLimit == 3
\* config.SOURCE_TAG (set by the environment)
SOURCE_TAG == 7
\* int(amount) / 1000000
DropsPerXrp == 1000000

None == "none"
NoAmount == [currency |-> "none", issuer |-> "none", value |-> 0]
NoLedger == 0 - 1

\* an amount of XRP as the ledger sends it: a string of drops
Drops(n) == [drops |-> n * DropsPerXrp]
\* an amount of XRP in a balance change or in a record of the store
XRP(n) == [currency |-> "XRP", issuer |-> None, value |-> n]
USD(n) == [currency |-> "USD", issuer |-> "rIssuer", value |-> n]

(***************************************************************************)
(* Users and wallets (the users collection; config.DEFAULT_USERS shape).   *)
(***************************************************************************)
users == << [id |-> "u1", wallets |-> <<"W1", "W2">>],
            [id |-> "u2", wallets |-> <<"W3">>] >>

user_wallets(user_id) ==
    LET us == {i \in 1..Len(users) : users[i].id = user_id}
    IN  IF us = {} THEN {}
        ELSE LET u == users[CHOOSE i \in us : TRUE]
             IN  {u.wallets[j] : j \in 1..Len(u.wallets)}

WalletPairs ==
    {<<i, j>> : i \in 1..Len(users), j \in 1..2} \cap
    {p \in (1..Len(users)) \X (1..2) : p[2] <= Len(users[p[1]].wallets)}


(***************************************************************************)
(* The transactions the ledger may hold.  A transaction is one entry of an *)
(* account_tx response: hash and ledger_index at the top level, the        *)
(* transaction fields under tx_json, the metadata under meta.  Of the      *)
(* metadata the model keeps TransactionResult, the Offer nodes of          *)
(* AffectedNodes and the result of xrpl.utils.get_balance_changes.         *)
(***************************************************************************)
OfferNode(kind, account, sequence, prev, gets, pays) ==
    [kind |-> kind, LedgerEntryType |-> "Offer", PreviousTxnID |-> prev,
     FinalFields |-> [Account |-> account, Sequence |-> sequence,
                      TakerGets |-> gets, TakerPays |-> pays]]

Bal(account, balances) == [account |-> account, balances |-> balances]

\* SourceTag 0 stands for a transaction without SourceTag
TxJson(type, account, destination, sequence, offer_sequence, tagged, gets, pays, amount) ==
    [TransactionType |-> type, Account |-> account, Destination |-> destination,
     Sequence |-> sequence, OfferSequence |-> offer_sequence,
     SourceTag |-> IF tagged THEN SOURCE_TAG ELSE 0, Fee |-> DropsPerXrp,
     TakerGets |-> gets, TakerPays |-> pays, Amount |-> amount]

Entry(hash, ledger_index, tx_json, nodes, balances) ==
    [hash |-> hash, ledger_index |-> ledger_index,
     tx_json |-> [k \in DOMAIN tx_json \cup {"date"} |->
                    IF k = "date" THEN ledger_index ELSE tx_json[k]],
     meta |-> [form |-> "dict", TransactionResult |-> "tesSUCCESS",
               AffectedNodes |-> nodes, balance_changes |-> balances]]

\* the same entry delivered without its metadata ("absent") or with the
\* metadata as an unexpanded string ("str"): tx.get("meta") or
\* tx.get("metaData", {}) is then the empty dict or the string, and no
\* result, node or balance change can be read from it
Unexpanded(tx, form) ==
    [tx EXCEPT !.meta = [form |-> form, TransactionResult |-> None,
                         AffectedNodes |-> << >>, balance_changes |-> << >>]]

MetaForms == {"absent", "str"}

\* OfferCreate by W1 (Sequence 1) that rests on the book
tx_c1 ==
    Entry("c1", 1,
          TxJson("OfferCreate", "W1", None, 1, 0, TRUE, Drops(10), USD(5), NoAmount),
          << OfferNode("CreatedNode", "W1", 1, None, Drops(10), USD(5)) >>,
          << Bal("W1", << XRP(0 - 1) >>) >>)

\* OfferCreate by W1 (Sequence 2, immediate-or-cancel) that succeeds
\* without crossing and without leaving an offer on the book
tx_f1 ==
    Entry("f1", 1,
          TxJson("OfferCreate", "W1", None, 2, 0, TRUE, Drops(10), USD(5), NoAmount),
          << >>,
          << Bal("W1", << XRP(0 - 1) >>) >>)

\* Payment X -> Y that consumes a part of W1's offer 1
tx_m1 ==
    Entry("m1", 2,
          TxJson("Payment", "X", "Y", 31, 0, FALSE, NoAmount, NoAmount, Drops(4)),
          << OfferNode("ModifiedNode", "W1", 1, "c1", Drops(6), USD(3)) >>,
          << Bal("X", << XRP(0 - 1), USD(0 - 2) >>),
             Bal("W1", << XRP(0 - 4), USD(2) >>),
             Bal("Y", << XRP(4) >>) >>)

\* OfferCancel by W1 of its offer 1
tx_k1 ==
    Entry("k1", 3,
          TxJson("OfferCancel", "W1", None, 3, 1, FALSE, NoAmount, NoAmount, NoAmount),
          << OfferNode("DeletedNode", "W1", 1, "c1", Drops(10), USD(5)) >>,
          << Bal("W1", << XRP(0 - 1) >>) >>)

\* Payment X -> Y that consumes W1's offer 1 completely
tx_d1 ==
    Entry("d1", 3,
          TxJson("Payment", "X", "Y", 32, 0, FALSE, NoAmount, NoAmount, Drops(10)),
          << OfferNode("DeletedNode", "W1", 1, "c1", Drops(10), USD(5)) >>,
          << Bal("X", << XRP(0 - 1), USD(0 - 5) >>),
             Bal("W1", << XRP(0 - 10), USD(5) >>),
             Bal("Y", << XRP(10) >>) >>)

\* Payment X -> W1 in XRP: a deposit
tx_dep ==
    Entry("dep", 3,
          TxJson("Payment", "X", "W1", 33, 0, TRUE, NoAmount, NoAmount, Drops(5)),
          << >>,
          << Bal("X", << XRP(0 - 6) >>), Bal("W1", << XRP(5) >>) >>)

\* in ledger order
Pool == << tx_c1, tx_f1, tx_m1, tx_k1, tx_d1, tx_dep >>

PoolHashes == {Pool[i].hash : i \in 1..Len(Pool)}

\* an offer leaves the book once, and the PreviousTxnID of an offer node
\* is the transaction that touched the offer last
LedgerConsistent(S) ==
    /\ ~({"k1", "d1"} \subseteq S)
    /\ ~({"m1", "d1"} \subseteq S)

Histories ==
    {SelectSeq(Pool, LAMBDA t : t.hash \in S) :
        S \in {T \in SUBSET PoolHashes : Cardinality(T) <= MaxHist /\ LedgerConsistent(T)}}

Range(s) == {s[i] : i \in 1..Len(s)}

Max(a, b) == IF a >= b THEN a ELSE b

MaxLedger(h) ==
    IF h = << >> THEN FROM_LEDGER
    ELSE Max(FROM_LEDGER, h[Len(h)].ledger_index)

\* the accounts whose account_tx history lists the transaction
Affected(tx) ==
    {tx.tx_json.Account, tx.tx_json.Destination}
    \cup {tx.meta.AffectedNodes[i].FinalFields.Account : i \in 1..Len(tx.meta.AffectedNodes)}
    \cup {tx.meta.balance_changes[i].account : i \in 1..Len(tx.meta.balance_changes)}

(***************************************************************************)
(* The document store (mongo_client.MongoDatabase).                        *)
(***************************************************************************)
EmptyDoc == [f \in {} |-> None]

\* update_one(..., {"$set": doc}, ...): the fields of doc replace or extend
\* the fields of the stored document, the other fields stay
SetFields(old, doc) ==
    [f \in (DOMAIN old) \cup (DOMAIN doc) |->
        IF f \in DOMAIN doc THEN doc[f] ELSE old[f]]

\* update_one({"hash": h}, {"$set": doc}, upsert=True)
Upsert(coll, doc) ==
    LET h == doc["hash"]
        old == IF h \in DOMAIN coll THEN coll[h] ELSE EmptyDoc
    IN  [k \in (DOMAIN coll) \cup {h} |->
            IF k = h THEN SetFields(old, doc) ELSE coll[k]]

\* update_one({"hash": h}, {"$set": patch}) without upsert
UpdateOne(coll, h, patch) ==
    IF h \in DOMAIN coll
    THEN [k \in DOMAIN coll |-> IF k = h THEN SetFields(coll[k], patch) ELSE coll[k]]
    ELSE coll

\* delete_one({"hash": h})
DeleteOne(coll, h) == [k \in (DOMAIN coll) \ {h} |-> coll[k]]

EmptyColl == [k \in {} |-> EmptyDoc]

EmptyDb ==
    [transactions |-> EmptyColl, open_orders |-> EmptyColl,
     filled_orders |-> EmptyColl, canceled_orders |-> EmptyColl,
     deposits_withdrawals |-> EmptyColl, market_trades |-> EmptyColl]

\* variant: the update also counts the writes ("$inc")
store_transaction_counting(d, tx, user_id) ==
    LET h == tx["hash"]
        seen == IF h \in DOMAIN d.transactions /\ "seen" \in DOMAIN d.transactions[h]
                THEN d.transactions[h]["seen"] ELSE 0
    IN  [d EXCEPT !.transactions =
            Upsert(@, SetFields(tx, [user_id |-> user_id, seen |-> seen + 1]))]

store_transaction(d, tx, user_id) ==
    [d EXCEPT !.transactions = Upsert(@, SetFields(tx, [user_id |-> user_id]))]

\* find(query).sort("ledger_index", -1).limit(1) with the query
\* {"user_id": user_id, "$or": [{"Account": wallet}, {"Destination": wallet}]}:
\* the filter reads the top-level fields Account and Destination of a document
get_transactions(d, user_id, wallet) ==
    LET match == {h \in DOMAIN d.transactions :
                    LET doc == d.transactions[h]
                    IN  /\ doc["user_id"] = user_id
                        /\ \/ "Account" \in DOMAIN doc /\ doc["Account"] = wallet
                           \/ "Destination" \in DOMAIN doc /\ doc["Destination"] = wallet}
    IN  {d.transactions[h] : h \in {k \in match :
            \A j \in match : d.transactions[j]["ledger_index"] <= d.transactions[k]["ledger_index"]}}

store_open_order(d, order) == [d EXCEPT !.open_orders = Upsert(@, order)]

get_open_orders(d) == {d.open_orders[h] : h \in DOMAIN d.open_orders}

\* find_one({"account": account, "sequence": sequence})
get_open_order_by_sequence(d, account, sequence) ==
    {d.open_orders[h] : h \in {k \in DOMAIN d.open_orders :
        /\ d.open_orders[k]["account"] = account
        /\ d.open_orders[k]["sequence"] = sequence}}

\* variant: the matched document is replaced by the update ("replace_one")
update_open_order_replacing(d, order_hash, update_data) ==
    [d EXCEPT !.open_orders =
        IF order_hash \in DOMAIN @
        THEN [k \in DOMAIN @ |->
                IF k = order_hash THEN SetFields([hash |-> order_hash], update_data)
                ELSE @[k]]
        ELSE @]

update_open_order(d, order_hash, update_data) ==
    [d EXCEPT !.open_orders = UpdateOne(@, order_hash, update_data)]

delete_open_order(d, order_hash) ==
    [d EXCEPT !.open_orders = DeleteOne(@, order_hash)]

store_filled_order(d, order) == [d EXCEPT !.filled_orders = Upsert(@, order)]

store_canceled_order(d, order) == [d EXCEPT !.canceled_orders = Upsert(@, order)]

store_deposit_withdrawal(d, rec) ==
    [d EXCEPT !.deposits_withdrawals = Upsert(@, rec)]


(***************************************************************************)
(* Transaction analysis (utils/transaction_processor.py).                  *)
(***************************************************************************)
\* float(drops_to_xrp(Fee))
get_transaction_fee(tx) == tx.tx_json.Fee \div DropsPerXrp

has_source_tag(tx, target_tag) ==
    tx.tx_json.SourceTag # 0 /\ tx.tx_json.SourceTag = target_tag

\* variant: only deposits and withdrawals are told apart
is_deposit_or_withdrawal_two_way(tx, wallets) ==
    LET account == tx.tx_json.Account
        destination == tx.tx_json.Destination
    IN  IF tx.tx_json.TransactionType # "Payment" THEN None
        ELSE IF account \in wallets /\ destination \notin wallets THEN "withdrawal"
        ELSE IF account \notin wallets /\ destination \in wallets THEN "deposit"
        ELSE None

is_deposit_or_withdrawal(tx, wallets) ==
    LET account == tx.tx_json.Account
        destination == tx.tx_json.Destination
    IN  IF tx.tx_json.TransactionType # "Payment" THEN None
        ELSE IF account \in wallets /\ destination \notin wallets THEN "withdrawal"
        ELSE IF account \notin wallets /\ destination \in wallets THEN "deposit"
        ELSE IF account \in wallets /\ destination \in wallets THEN "internal_transfer"
        ELSE None

\* change["currency"] == "XRP" and abs(float(change["value"]) + fee) < 0.000001
FeeOnly(change, fee) == change.currency = "XRP" /\ change.value + fee = 0

OfferNodes(tx, kinds) ==
    {i \in 1..Len(tx.meta.AffectedNodes) :
        /\ tx.meta.AffectedNodes[i].kind \in kinds
        /\ tx.meta.AffectedNodes[i].LedgerEntryType = "Offer"}

is_offer_filled(tx) ==
    LET account == tx.tx_json.Account
        fee == get_transaction_fee(tx)
        bcs == tx.meta.balance_changes
    IN  IF tx.tx_json.TransactionType # "OfferCreate" THEN FALSE
        ELSE IF tx.meta.form = "str" THEN FALSE
        ELSE IF tx.meta.TransactionResult # "tesSUCCESS" THEN FALSE
        ELSE IF \E i \in 1..Len(bcs) :
                    /\ bcs[i].account = account
                    /\ \E j \in 1..Len(bcs[i].balances) : ~FeeOnly(bcs[i].balances[j], fee)
             THEN TRUE
        ELSE IF OfferNodes(tx, {"CreatedNode"}) # {} THEN FALSE
        ELSE TRUE

\* get_balance_changes returns a list of records, so "account in
\* balance_changes" is false and only the offer nodes decide
is_market_trade(tx) ==
    /\ tx.tx_json.TransactionType = "Payment"
    /\ tx.meta.form # "str"
    /\ tx.meta.TransactionResult = "tesSUCCESS"
    /\ OfferNodes(tx, {"DeletedNode", "ModifiedNode"}) # {}

\* data_types.Trade: the required fields of the pydantic model; a call
\* that leaves one out raises ValidationError
TradeRequired ==
    {"hash", "ledger_index", "timestamp", "taker_address", "maker_address",
     "sold_amount", "bought_amount"}

TradeValidates(keywords) == TradeRequired \subseteq keywords

\* the keyword arguments of the two Trade(...) calls of the extraction
ExtractTradeKeywords ==
    {"tx_hash", "ledger_index", "timestamp", "taker_address", "maker_address",
     "sold_amount", "bought_amount", "related_offer_sequence"}

FallbackTradeKeywords ==
    {"tx_hash", "ledger_index", "timestamp", "taker_address", "maker_address",
     "sold_amount", "bought_amount"}

\* a maker with a sold and a bought asset: a Trade is built for it
MakerTraded(tx) ==
    \E i \in 1..Len(tx.meta.balance_changes) :
        LET bc == tx.meta.balance_changes[i]
        IN  /\ bc.account # tx.tx_json.Account
            /\ \E j \in 1..Len(bc.balances) : bc.balances[j].value > 0
            /\ \E j \in 1..Len(bc.balances) : bc.balances[j].value < 0

\* one Trade per deleted or modified Offer node
_extract_trades_from_affected_nodes(tx) ==
    IF OfferNodes(tx, {"DeletedNode", "ModifiedNode"}) # {}
       /\ ~TradeValidates(FallbackTradeKeywords)
    THEN [raised |-> TRUE, trades |-> {}]
    ELSE [raised |-> FALSE,
          trades |-> {tx.hash : i \in OfferNodes(tx, {"DeletedNode", "ModifiedNode"})}]

\* the trades are modelled by the set of their transaction hashes
extract_trades_from_metadata(tx) ==
    IF tx.meta.form # "dict" THEN [raised |-> FALSE, trades |-> {}]
    ELSE IF MakerTraded(tx)
    THEN IF TradeValidates(ExtractTradeKeywords)
         THEN [raised |-> FALSE, trades |-> {tx.hash}]
         ELSE _extract_trades_from_affected_nodes(tx)
    ELSE [raised |-> FALSE, trades |-> {}]

\* the enriched transaction; raised when the trade extraction raises
analyze_transaction(tx, wallets) ==
    LET tx_type == tx.tx_json.TransactionType
        base == SetFields(tx, [fee_xrp |-> get_transaction_fee(tx), tx_type |-> tx_type])
        with_bc == IF tx.meta.balance_changes # << >>
                   THEN SetFields(base, [balance_changes |-> tx.meta.balance_changes])
                   ELSE base
        seq_field == IF tx.tx_json.OfferSequence # 0
                     THEN [canceled_offer_sequence |-> tx.tx_json.OfferSequence]
                     ELSE EmptyDoc
        ext == extract_trades_from_metadata(tx)
        nature == is_deposit_or_withdrawal(tx, wallets)
    IN  CASE tx_type = "OfferCreate" ->
                IF is_offer_filled(tx)
                THEN [raised |-> ext.raised,
                      tx |-> SetFields(SetFields(with_bc,
                                [offer_filled |-> TRUE, trades |-> ext.trades]), seq_field)]
                ELSE [raised |-> FALSE,
                      tx |-> SetFields(SetFields(with_bc, [offer_filled |-> FALSE]), seq_field)]
          [] tx_type = "Payment" ->
                IF nature # None
                THEN [raised |-> FALSE,
                      tx |-> SetFields(with_bc, [transaction_nature |-> nature])]
                ELSE IF is_market_trade(tx)
                THEN [raised |-> ext.raised,
                      tx |-> SetFields(with_bc, [transaction_nature |-> "market_trade",
                                                 trades |-> ext.trades])]
                ELSE [raised |-> FALSE, tx |-> with_bc]
          [] tx_type = "OfferCancel" ->
                [raised |-> FALSE, tx |-> SetFields(with_bc, seq_field)]
          [] OTHER -> [raised |-> FALSE, tx |-> with_bc]


(***************************************************************************)
(* The collector (collector.XRPLCollector): transaction processing.        *)
(* A handler maps the store to [db, raised]: the store it leaves behind    *)
(* and whether it ended by raising an exception.                           *)
(***************************************************************************)
Ok(d) == [db |-> d, raised |-> FALSE]
Raise(d) == [db |-> d, raised |-> TRUE]

\* XRPLAmount.from_xrpl_amount: a string is an amount of drops, a record
\* is an issued amount or an amount already converted
from_xrpl_amount(amount) ==
    IF "drops" \in DOMAIN amount
    THEN [currency |-> "XRP", issuer |-> None, value |-> amount.drops \div DropsPerXrp]
    ELSE [currency |-> amount.currency, issuer |-> amount.issuer, value |-> amount.value]

\* xrpl.utils.ripple_time_to_datetime: seconds since the Ripple epoch to a datetime
ripple_time_to_datetime(t) == [datetime |-> "ripple_epoch", seconds |-> t]

Abs(n) == IF n < 0 THEN 0 - n ELSE n

\* the methods of mongo_client.MongoDatabase; calling another name on the
\* store raises AttributeError
MongoMethods ==
    {"initialize_default_users", "get_users", "store_transaction",
     "get_transactions", "store_open_order", "get_open_orders",
     "get_open_order_by_sequence", "update_open_order", "delete_open_order",
     "store_filled_order", "get_filled_orders", "store_deposit_withdrawal",
     "get_deposits_withdrawals", "get_min_open_order_ledger",
     "get_transaction_by_hash", "update_transaction", "store_market_trade",
     "get_market_trades", "update_market_trade", "store_canceled_order",
     "get_canceled_orders"}

BalancesOf(tx, account) ==
    LET bcs == IF "balance_changes" \in DOMAIN tx THEN tx["balance_changes"] ELSE << >>
        idx == {i \in 1..Len(bcs) : bcs[i].account = account}
    IN  IF idx = {} THEN << >>
        ELSE bcs[CHOOSE i \in idx : \A j \in idx : i <= j].balances

\* variant: the fee is not taken off the native amount of a withdrawal
_process_deposit_withdrawal_gross(d, tx, user_id) ==
    LET tx_type == tx["transaction_nature"]
        fee_xrp == tx["fee_xrp"]
        target_account == IF tx_type = "deposit" THEN tx.tx_json.Destination
                          ELSE tx.tx_json.Account
        changes == BalancesOf(tx, target_account)
        hits == {j \in 1..Len(changes) :
                    /\ ~(changes[j].currency = "XRP" /\ tx_type = "withdrawal"
                         /\ changes[j].value + fee_xrp = 0)
                    /\ \/ tx_type = "deposit" /\ changes[j].value > 0
                       \/ tx_type = "withdrawal" /\ changes[j].value < 0}
    IN  IF hits = {} THEN Raise(d)      \* "amount" is not bound
        ELSE LET change == changes[CHOOSE j \in hits : \A k \in hits : j <= k]
                 value == IF change.currency = "XRP" /\ tx_type = "withdrawal"
                          THEN Abs(change.value)
                          ELSE Abs(change.value)
             IN  Ok(store_deposit_withdrawal(d,
                    [hash |-> tx.hash, ledger_index |-> tx.ledger_index,
                     from_address |-> tx.tx_json.Account,
                     to_address |-> tx.tx_json.Destination,
                     amount |-> [currency |-> change.currency,
                                 issuer |-> change.issuer, value |-> value],
                     type |-> tx_type, user_id |-> user_id,
                     fee_xrp |-> IF tx_type # "deposit" THEN fee_xrp ELSE 0]))

_process_deposit_withdrawal(d, tx, user_id) ==
    LET tx_type == tx["transaction_nature"]
        fee_xrp == tx["fee_xrp"]
        target_account == IF tx_type = "deposit" THEN tx.tx_json.Destination
                          ELSE tx.tx_json.Account
        changes == BalancesOf(tx, target_account)
        hits == {j \in 1..Len(changes) :
                    /\ ~(changes[j].currency = "XRP" /\ tx_type = "withdrawal"
                         /\ changes[j].value + fee_xrp = 0)
                    /\ \/ tx_type = "deposit" /\ changes[j].value > 0
                       \/ tx_type = "withdrawal" /\ changes[j].value < 0}
    IN  IF hits = {} THEN Raise(d)      \* "amount" is not bound
        ELSE LET change == changes[CHOOSE j \in hits : \A k \in hits : j <= k]
                 value == IF change.currency = "XRP" /\ tx_type = "withdrawal"
                          THEN Abs(change.value) - fee_xrp
                          ELSE Abs(change.value)
             IN  Ok(store_deposit_withdrawal(d,
                    [hash |-> tx.hash, ledger_index |-> tx.ledger_index,
                     from_address |-> tx.tx_json.Account,
                     to_address |-> tx.tx_json.Destination,
                     amount |-> [currency |-> change.currency,
                                 issuer |-> change.issuer, value |-> value],
                     type |-> tx_type, user_id |-> user_id,
                     fee_xrp |-> IF tx_type # "deposit" THEN fee_xrp ELSE 0]))

\* Trade(hash=...) validates; self.db.store_trade is not a method of the store
_process_market_trade(d, tx, user_id) ==
    IF "store_trade" \in MongoMethods /\ "store_filled_order" \in MongoMethods
    THEN Ok(store_filled_order(d,
            [hash |-> tx.hash, account |-> tx.tx_json.Account,
             sequence |-> tx.tx_json.Sequence,
             created_ledger_index |-> tx.ledger_index,
             resolved_ledger_index |-> tx.ledger_index,
             status |-> "filled", user_id |-> user_id,
             transaction_type |-> "Payment", trades |-> {tx.hash},
             fee_xrp |-> tx["fee_xrp"]]))
    ELSE Raise(d)

\* variant: TakerGets and TakerPays taken for one another
_process_open_offer_sides_swapped(d, tx, user_id) ==
    Ok(store_open_order(d,
        [hash |-> tx.hash, account |-> tx.tx_json.Account,
         sequence |-> tx.tx_json.Sequence,
         created_ledger_index |-> tx.ledger_index,
         last_checked_ledger |-> tx.ledger_index,
         taker_gets |-> from_xrpl_amount(tx.tx_json.TakerPays),
         taker_pays |-> from_xrpl_amount(tx.tx_json.TakerGets),
         status |-> "open", user_id |-> user_id,
         transaction_type |-> "OfferCreate",
         created_date |-> ripple_time_to_datetime(tx.tx_json["date"]),
         fee_xrp |-> tx["fee_xrp"]]))

_process_open_offer(d, tx, user_id) ==
    Ok(store_open_order(d,
        [hash |-> tx.hash, account |-> tx.tx_json.Account,
         sequence |-> tx.tx_json.Sequence,
         created_ledger_index |-> tx.ledger_index,
         last_checked_ledger |-> tx.ledger_index,
         taker_gets |-> from_xrpl_amount(tx.tx_json.TakerGets),
         taker_pays |-> from_xrpl_amount(tx.tx_json.TakerPays),
         status |-> "open", user_id |-> user_id,
         transaction_type |-> "OfferCreate",
         created_date |-> ripple_time_to_datetime(tx.tx_json["date"]),
         fee_xrp |-> tx["fee_xrp"]]))

\* the last negative change is filled_gets, the last positive one filled_pays
_process_filled_offer(d, tx, user_id) ==
    LET fee_xrp == tx["fee_xrp"]
        changes == BalancesOf(tx, tx.tx_json.Account)
        neg == {j \in 1..Len(changes) :
                    ~FeeOnly(changes[j], fee_xrp) /\ changes[j].value < 0}
        pos == {j \in 1..Len(changes) :
                    ~FeeOnly(changes[j], fee_xrp) /\ changes[j].value > 0}
        last(S) == changes[CHOOSE j \in S : \A k \in S : k <= j]
        filled_gets == IF neg = {} THEN NoAmount
                       ELSE [currency |-> last(neg).currency, issuer |-> last(neg).issuer,
                             value |-> Abs(last(neg).value)]
        filled_pays == IF pos = {} THEN NoAmount
                       ELSE [currency |-> last(pos).currency, issuer |-> last(pos).issuer,
                             value |-> last(pos).value]
    IN  Ok(store_filled_order(d,
            [hash |-> tx.hash, account |-> tx.tx_json.Account,
             sequence |-> tx.tx_json.Sequence,
             created_ledger_index |-> tx.ledger_index,
             resolved_ledger_index |-> tx.ledger_index,
             taker_gets |-> from_xrpl_amount(tx.tx_json.TakerGets),
             taker_pays |-> from_xrpl_amount(tx.tx_json.TakerPays),
             filled_gets |-> filled_gets, filled_pays |-> filled_pays,
             status |-> "filled", user_id |-> user_id,
             transaction_type |-> "OfferCreate",
             created_date |-> ripple_time_to_datetime(tx.tx_json["date"]),
             resolution_date |-> ripple_time_to_datetime(tx.tx_json["date"]),
             cancel_tx_hash |-> None, trades |-> tx["trades"],
             fee_xrp |-> fee_xrp]))

_process_partially_filled_order(d, open_order, cancel_tx, user_id, cancel_fee_xrp) ==
    IF ~({"filled_gets", "filled_pays"} \subseteq DOMAIN open_order)
    THEN Raise(d)       \* from_xrpl_amount(None)
    ELSE Ok(delete_open_order(
            store_filled_order(d,
                [hash |-> open_order["hash"], account |-> open_order["account"],
                 sequence |-> open_order["sequence"],
                 created_ledger_index |-> open_order["created_ledger_index"],
                 resolved_ledger_index |-> cancel_tx.ledger_index,
                 taker_gets |-> from_xrpl_amount(open_order["taker_gets"]),
                 taker_pays |-> from_xrpl_amount(open_order["taker_pays"]),
                 filled_gets |-> from_xrpl_amount(open_order["filled_gets"]),
                 filled_pays |-> from_xrpl_amount(open_order["filled_pays"]),
                 status |-> "partially_filled", user_id |-> user_id,
                 transaction_type |-> "OfferCreate",
                 created_date |-> open_order["created_date"],
                 resolution_date |-> ripple_time_to_datetime(cancel_tx.tx_json["date"]),
                 cancel_tx_hash |-> cancel_tx.hash, trades |-> {},
                 fee_xrp |-> open_order["fee_xrp"] + cancel_fee_xrp]),
            open_order["hash"]))

\* variant: the open order is not deleted
_process_canceled_order_keeps_open(d, open_order, cancel_tx, user_id, cancel_fee_xrp) ==
    Ok(store_canceled_order(d,
            [hash |-> open_order["hash"], account |-> open_order["account"],
             sequence |-> open_order["sequence"],
             created_ledger_index |-> open_order["created_ledger_index"],
             canceled_ledger_index |-> cancel_tx.ledger_index,
             taker_gets |-> from_xrpl_amount(open_order["taker_gets"]),
             taker_pays |-> from_xrpl_amount(open_order["taker_pays"]),
             status |-> "canceled", user_id |-> user_id,
             transaction_type |-> "OfferCreate",
             created_date |-> open_order["created_date"],
             canceled_date |-> ripple_time_to_datetime(cancel_tx.tx_json["date"]),
             cancel_tx_hash |-> cancel_tx.hash,
             create_fee_xrp |-> open_order["fee_xrp"],
             cancel_fee_xrp |-> cancel_fee_xrp,
             fee_xrp |-> open_order["fee_xrp"] + cancel_fee_xrp]))

_process_canceled_order(d, open_order, cancel_tx, user_id, cancel_fee_xrp) ==
    Ok(delete_open_order(
        store_canceled_order(d,
            [hash |-> open_order["hash"], account |-> open_order["account"],
             sequence |-> open_order["sequence"],
             created_ledger_index |-> open_order["created_ledger_index"],
             canceled_ledger_index |-> cancel_tx.ledger_index,
             taker_gets |-> from_xrpl_amount(open_order["taker_gets"]),
             taker_pays |-> from_xrpl_amount(open_order["taker_pays"]),
             status |-> "canceled", user_id |-> user_id,
             transaction_type |-> "OfferCreate",
             created_date |-> open_order["created_date"],
             canceled_date |-> ripple_time_to_datetime(cancel_tx.tx_json["date"]),
             cancel_tx_hash |-> cancel_tx.hash,
             create_fee_xrp |-> open_order["fee_xrp"],
             cancel_fee_xrp |-> cancel_fee_xrp,
             fee_xrp |-> open_order["fee_xrp"] + cancel_fee_xrp]),
        open_order["hash"]))

\* variant: a cancel that names no open order is recorded as a canceled order
_process_offer_cancel_records_unknown(d, tx, user_id) ==
    LET account == tx.tx_json.Account
        offer_sequence == tx.tx_json.OfferSequence
        found == get_open_order_by_sequence(d, account, offer_sequence)
    IN  IF account = None \/ offer_sequence = 0 THEN Ok(d)
        ELSE IF found = {}
             THEN Ok(store_canceled_order(d,
                        [hash |-> tx.hash, account |-> account,
                         sequence |-> offer_sequence, status |-> "canceled",
                         user_id |-> user_id, cancel_tx_hash |-> tx.hash]))
        ELSE LET open_order == CHOOSE o \in found : TRUE
             IN  IF open_order["status"] = "open"
                 THEN _process_canceled_order(d, open_order, tx, user_id, tx["fee_xrp"])
                 ELSE _process_partially_filled_order(d, open_order, tx, user_id, tx["fee_xrp"])

_process_offer_cancel(d, tx, user_id) ==
    LET account == tx.tx_json.Account
        offer_sequence == tx.tx_json.OfferSequence
        found == get_open_order_by_sequence(d, account, offer_sequence)
    IN  IF account = None \/ offer_sequence = 0 THEN Ok(d)
        ELSE IF found = {} THEN Ok(d)
        ELSE LET open_order == CHOOSE o \in found : TRUE
             IN  IF open_order["status"] = "open"
                 THEN _process_canceled_order(d, open_order, tx, user_id, tx["fee_xrp"])
                 ELSE _process_partially_filled_order(d, open_order, tx, user_id, tx["fee_xrp"])

_is_payment_filling_our_offer(tx, user_id) ==
    \E i \in OfferNodes(tx, {"DeletedNode", "ModifiedNode"}) :
        tx.meta.AffectedNodes[i].FinalFields.Account \in user_wallets(user_id)

\* XRPLAmount(currency=original.currency, issuer=original.issuer,
\*            value=str(float(original.value) - float(remaining.value)))
AmountDifference(original, remaining) ==
    [currency |-> original.currency, issuer |-> original.issuer,
     value |-> original.value - remaining.value]

\* the fields that update_open_order sets on a partly consumed offer
PartialFillUpdate(open_order, filled_offer, tx, existing_trades) ==
    [status |-> "partially_filled",
     last_checked_ledger |-> tx.ledger_index,
     filled_gets |-> AmountDifference(from_xrpl_amount(open_order["taker_gets"]),
                                      from_xrpl_amount(filled_offer.TakerGets)),
     filled_pays |-> AmountDifference(from_xrpl_amount(open_order["taker_pays"]),
                                      from_xrpl_amount(filled_offer.TakerPays)),
     trades |-> existing_trades]

\* the handler from "if not open_order" on: node is the own offer node,
\* existing_trades the result of get_trades
ResolveByPayment(d, tx, user_id, node, existing_trades) ==
    LET filled_offer == node.FinalFields
        prev_tx_id == node.PreviousTxnID
        found == get_open_order_by_sequence(d, filled_offer.Account, filled_offer.Sequence)
    IN  IF found = {} THEN Ok(d)
        ELSE LET open_order == CHOOSE o \in found : TRUE
             IN  IF node.kind = "DeletedNode"
                 THEN Ok(delete_open_order(
                        store_filled_order(d,
                            [hash |-> open_order["hash"], account |-> open_order["account"],
                             sequence |-> open_order["sequence"],
                             created_ledger_index |-> open_order["created_ledger_index"],
                             resolved_ledger_index |-> tx.ledger_index,
                             taker_gets |-> from_xrpl_amount(open_order["taker_gets"]),
                             taker_pays |-> from_xrpl_amount(open_order["taker_pays"]),
                             filled_gets |-> from_xrpl_amount(open_order["taker_gets"]),
                             filled_pays |-> from_xrpl_amount(open_order["taker_pays"]),
                             status |-> "filled", user_id |-> user_id,
                             transaction_type |-> "OfferCreate",
                             created_date |-> open_order["created_date"],
                             resolution_date |-> ripple_time_to_datetime(tx.tx_json["date"]),
                             cancel_tx_hash |-> None, trades |-> existing_trades,
                             fee_xrp |-> open_order["fee_xrp"]]),
                        open_order["hash"]))
                 ELSE Ok(update_open_order(d, prev_tx_id,
                            PartialFillUpdate(open_order, filled_offer, tx, existing_trades)))

\* the first own offer node is found and the Trade is built; the calls
\* self.db.store_trade and self.db.get_trades are not methods of the store,
\* and the first of them ends the handler with AttributeError
_process_offer_filled_by_payment(d, tx, user_id) ==
    LET own == {i \in OfferNodes(tx, {"DeletedNode", "ModifiedNode"}) :
                    tx.meta.AffectedNodes[i].FinalFields.Account \in user_wallets(user_id)}
    IN  IF own = {} THEN Ok(d)
        ELSE LET node == tx.meta.AffectedNodes[CHOOSE i \in own : \A k \in own : i <= k]
             IN  IF "store_trade" \notin MongoMethods THEN Raise(d)
                 ELSE IF node.PreviousTxnID = None THEN Ok(d)
                 ELSE IF "get_trades" \notin MongoMethods THEN Raise(d)
                 ELSE ResolveByPayment(d, tx, user_id, node, {})

_process_transaction(d, tx, user_id) ==
    LET a == analyze_transaction(tx, user_wallets(user_id))
        enriched_tx == a.tx
        tx_type == tx.tx_json.TransactionType
        d1 == IF has_source_tag(tx, SOURCE_TAG) \/ tx_type = "OfferCancel"
              THEN store_transaction(d, enriched_tx, user_id)
              ELSE d
    IN  IF a.raised THEN Raise(d)
        ELSE CASE tx_type = "Payment" ->
                    IF "transaction_nature" \notin DOMAIN enriched_tx
                    THEN Raise(d1)      \* KeyError
                    ELSE IF enriched_tx["transaction_nature"] \in
                                {"deposit", "withdrawal", "internal_transfer"}
                    THEN _process_deposit_withdrawal(d1, enriched_tx, user_id)
                    ELSE IF is_market_trade(tx)
                    THEN IF _is_payment_filling_our_offer(tx, user_id)
                         THEN _process_offer_filled_by_payment(d1, tx, user_id)
                         ELSE _process_market_trade(d1, enriched_tx, user_id)
                    ELSE Ok(d1)
               [] tx_type = "OfferCreate" ->
                    IF enriched_tx["offer_filled"]
                    THEN _process_filled_offer(d1, enriched_tx, user_id)
                    ELSE _process_open_offer(d1, enriched_tx, user_id)
               [] tx_type = "OfferCancel" ->
                    _process_offer_cancel(d1, enriched_tx, user_id)
               [] OTHER -> Ok(d1)

\* variant: the resolution ledger is read from a field the open order lacks
_handle_filled_order_without_ledger(d, order, now) ==
    delete_open_order(
        store_filled_order(d,
            [hash |-> order["hash"], account |-> order["account"],
             sequence |-> order["sequence"],
             created_ledger_index |-> order["created_ledger_index"],
             resolved_ledger_index |-> NoLedger,
             taker_gets |-> order["taker_gets"], taker_pays |-> order["taker_pays"],
             filled_gets |-> order["taker_gets"], filled_pays |-> order["taker_pays"],
             status |-> "filled", user_id |-> order["user_id"],
             transaction_type |-> order["transaction_type"],
             created_date |-> order["created_date"],
             resolution_date |-> now,
             resolution_method |-> "inferred"]),
        order["hash"])

\* variant: the open order is not deleted
_handle_filled_order_keeps_open(d, order, now) ==
    store_filled_order(d,
            [hash |-> order["hash"], account |-> order["account"],
             sequence |-> order["sequence"],
             created_ledger_index |-> order["created_ledger_index"],
             resolved_ledger_index |-> order["last_checked_ledger"],
             taker_gets |-> order["taker_gets"], taker_pays |-> order["taker_pays"],
             filled_gets |-> order["taker_gets"], filled_pays |-> order["taker_pays"],
             status |-> "filled", user_id |-> order["user_id"],
             transaction_type |-> order["transaction_type"],
             created_date |-> order["created_date"],
             resolution_date |-> now,
             resolution_method |-> "inferred"])

\* the reconciler's record of an offer that left the book; now is datetime.now()
_handle_filled_order(d, order, now) ==
    delete_open_order(
        store_filled_order(d,
            [hash |-> order["hash"], account |-> order["account"],
             sequence |-> order["sequence"],
             created_ledger_index |-> order["created_ledger_index"],
             resolved_ledger_index |-> order["last_checked_ledger"],
             taker_gets |-> order["taker_gets"], taker_pays |-> order["taker_pays"],
             filled_gets |-> order["taker_gets"], filled_pays |-> order["taker_pays"],
             status |-> "filled", user_id |-> order["user_id"],
             transaction_type |-> order["transaction_type"],
             created_date |-> order["created_date"],
             resolution_date |-> now,
             resolution_method |-> "inferred"]),
        order["hash"])


(***************************************************************************)
(* State.                                                                  *)
(***************************************************************************)
VARIABLES
    running,                    \* self.running
    history,                    \* the ledger: all transactions, in ledger order
    tip,                        \* the index of the last validated ledger
    db,                         \* the document store
    cycle,                      \* the number of the collection cycle (the clock)
    pc,                         \* where the driver is in start()
    ui, wi,                     \* the user and the wallet of the two for loops
    from_ledger,                \* _process_wallet: its from_ledger argument
    ledger_index_min,           \* _process_wallet: ledger_index_min
    retries,                    \* _process_wallet: retries
    all_transactions_queried,   \* _process_wallet: all_transactions_queried
    transactions,               \* _process_wallet: the page being processed
    pos,                        \* _process_wallet: index of the next transaction of the page
    open_orders,                \* _check_open_orders: the open orders loaded
    accounts_left,              \* _check_open_orders: accounts still to check
    failures,                   \* failed node requests so far
    wallets_done,               \* wallets whose _process_wallet returned in this cycle
    reconciler_runs,            \* calls of _check_open_orders in this cycle
    last_from                   \* per wallet, from_ledger of its latest _process_wallet

vars == << running, history, tip, db, cycle, pc, ui, wi, from_ledger, ledger_index_min,
           retries, all_transactions_queried, transactions, pos, open_orders,
           accounts_left, failures, wallets_done, reconciler_runs, last_from >>

walletVars == << from_ledger, ledger_index_min, retries,
                 all_transactions_queried, transactions, pos >>

user_id == users[ui].id
wallet == users[ui].wallets[wi]

(***************************************************************************)
(* The node.                                                               *)
(***************************************************************************)
Take(s, n) == IF Len(s) <= n THEN s ELSE SubSeq(s, 1, n)

\* account_tx(account, ledger_index_min, forward=True, limit)
AccountTx(account, min_ledger) ==
    Take(SelectSeq(history, LAMBDA t :
            /\ account \in Affected(t)
            /\ t.ledger_index >= min_ledger
            /\ t.ledger_index <= tip), PageLimit)

Visible == {history[i] : i \in {j \in 1..Len(history) : history[j].ledger_index <= tip}}

OfferTouched(t, kinds, account, sequence) ==
    \E i \in OfferNodes(t, kinds) :
        /\ t.meta.AffectedNodes[i].FinalFields.Account = account
        /\ t.meta.AffectedNodes[i].FinalFields.Sequence = sequence

\* account_offers(account): the sequences of the offers on the book
AccountOffers(account) ==
    {t.tx_json.Sequence : t \in {v \in Visible :
        /\ v.tx_json.Account = account
        /\ OfferTouched(v, {"CreatedNode"}, account, v.tx_json.Sequence)
        /\ ~\E w \in Visible : OfferTouched(w, {"DeletedNode"}, account, v.tx_json.Sequence)}}

\* ledger_current_index of the response: the ledger in progress
LedgerCurrentIndex == tip + 1

(***************************************************************************)
(* The driver (XRPLCollector.start) and the wallet polling loop.           *)
(***************************************************************************)
_get_min_ledger_index(d, u, w) ==
    LET last_tx == get_transactions(d, u, w)
    IN  IF last_tx # {} THEN (CHOOSE t \in last_tx : TRUE)["ledger_index"]
        ELSE FROM_LEDGER

\* variant: the index is read from tx_json, where it is absent, without max
NextLedgerIndexMin_from_tx_json(current, tx) ==
    IF "ledger_index" \in DOMAIN tx.tx_json THEN tx.tx_json["ledger_index"] ELSE 0

\* ledger_index_min = max(ledger_index_min, tx.get("ledger_index", 0))
NextLedgerIndexMin(current, tx) == Max(current, tx.ledger_index)

Position(p, u, w) == [pc |-> p, ui |-> u, wi |-> w]

\* variant: _check_open_orders inside the loop over the users
AfterWallet_reconcile_per_user(u, w) ==
    IF w < Len(users[u].wallets) THEN Position("get_min", u, w + 1)
    ELSE Position("reconcile", u, w)

\* the two for loops of start(): the wallet after wallet w of user u, and
\* _check_open_orders after the last wallet of the last user
AfterWallet(u, w) ==
    IF w < Len(users[u].wallets) THEN Position("get_min", u, w + 1)
    ELSE IF u < Len(users) THEN Position("get_min", u + 1, 1)
    ELSE Position("reconcile", u, w)

\* after _check_open_orders: statistics and the sleep
AfterCheckOpenOrders(u, w) == Position("sleep", u, w)

Init ==
    /\ running = TRUE
    /\ history \in Histories
    /\ tip = FROM_LEDGER
    /\ db = EmptyDb
    /\ cycle = 1
    /\ pc = "cycle_start"
    /\ ui = 1 /\ wi = 1
    /\ from_ledger = NoLedger
    /\ ledger_index_min = NoLedger
    /\ retries = 0
    /\ all_transactions_queried = FALSE
    /\ transactions = << >>
    /\ pos = 1
    /\ open_orders = {}
    /\ accounts_left = {}
    /\ failures = 0
    /\ wallets_done = {}
    /\ reconciler_runs = 0
    /\ last_from = [p \in WalletPairs |-> NoLedger]

\* a ledger closes
AdvanceLedger ==
    /\ tip < MaxLedger(history)
    /\ tip' = tip + 1
    /\ UNCHANGED << running, history, db, cycle, pc, ui, wi, walletVars, open_orders,
                    accounts_left, failures, wallets_done, reconciler_runs, last_from >>

\* top of the while loop: the first wallet of the first user
StartCycle ==
    /\ pc = "cycle_start"
    /\ pc' = "get_min" /\ ui' = 1 /\ wi' = 1
    /\ wallets_done' = {}
    /\ reconciler_runs' = 0
    /\ UNCHANGED << running, history, tip, db, cycle, walletVars, open_orders,
                    accounts_left, failures, last_from >>

\* min_ledger = _get_min_ledger_index(...) and the entry of _process_wallet
GetMinLedger ==
    /\ pc = "get_min"
    /\ from_ledger' = _get_min_ledger_index(db, user_id, wallet)
    /\ ledger_index_min' = from_ledger'
    /\ all_transactions_queried' = FALSE
    /\ retries' = 0
    /\ transactions' = << >>
    /\ pos' = 1
    /\ last_from' = [last_from EXCEPT ![<<ui, wi>>] = from_ledger']
    /\ pc' = "request"
    /\ UNCHANGED << running, history, tip, db, cycle, ui, wi, open_orders, accounts_left,
                    failures, wallets_done, reconciler_runs >>

\* variant: the while loop without its retry limit
LoopRuns_without_retry_limit == ~all_transactions_queried

\* while not all_transactions_queried and retries < 3
LoopRuns == ~all_transactions_queried /\ retries < RetryLimit

\* the AccountTx request is answered
RequestPageOk ==
    /\ pc = "request" /\ LoopRuns
    /\ transactions' = AccountTx(wallet, ledger_index_min)
    /\ all_transactions_queried' = (Len(transactions') <= 1)
    /\ pos' = 1
    /\ pc' = IF transactions' = << >> THEN "request" ELSE "process"
    /\ UNCHANGED << running, history, tip, db, cycle, ui, wi, from_ledger, ledger_index_min,
                    retries, open_orders, accounts_left, failures, wallets_done,
                    reconciler_runs, last_from >>

\* the AccountTx request fails: unsuccessful response or exception
RequestPageFail ==
    /\ pc = "request" /\ LoopRuns
    /\ failures < MaxNodeFailures
    /\ failures' = failures + 1
    /\ retries' = retries + 1
    /\ UNCHANGED << running, history, tip, db, cycle, pc, ui, wi, from_ledger,
                    ledger_index_min, all_transactions_queried, transactions, pos,
                    open_orders, accounts_left, wallets_done, reconciler_runs,
                    last_from >>

\* one transaction of the page goes through _process_transaction
ProcessTransactionOk ==
    /\ pc = "process"
    /\ LET tx == transactions[pos]
           r == _process_transaction(db, tx, user_id)
       IN  /\ ~r.raised
           /\ db' = r.db
           /\ ledger_index_min' = NextLedgerIndexMin(ledger_index_min, tx)
    /\ pos' = pos + 1
    /\ pc' = IF pos = Len(transactions) THEN "request" ELSE "process"
    /\ UNCHANGED << running, history, tip, cycle, ui, wi, from_ledger, retries,
                    all_transactions_queried, transactions, open_orders,
                    accounts_left, failures, wallets_done, reconciler_runs,
                    last_from >>

\* _process_transaction raises: the rest of the page is dropped
ProcessTransactionRaise ==
    /\ pc = "process"
    /\ LET r == _process_transaction(db, transactions[pos], user_id)
       IN  /\ r.raised
           /\ db' = r.db
    /\ retries' = retries + 1
    /\ pc' = "request"
    /\ UNCHANGED << running, history, tip, cycle, ui, wi, from_ledger, ledger_index_min,
                    all_transactions_queried, transactions, pos, open_orders,
                    accounts_left, failures, wallets_done, reconciler_runs,
                    last_from >>

\* the while loop of _process_wallet ends
FinishWallet ==
    /\ pc = "request" /\ ~LoopRuns
    /\ wallets_done' = wallets_done \cup {<<ui, wi>>}
    /\ LET next == AfterWallet(ui, wi)
       IN  pc' = next.pc /\ ui' = next.ui /\ wi' = next.wi
    /\ UNCHANGED << running, history, tip, db, cycle, walletVars, open_orders,
                    accounts_left, failures, reconciler_runs, last_from >>

(***************************************************************************)
(* The reconciler (_check_open_orders).                                    *)
(***************************************************************************)
RECURSIVE ReconcileOrders(_, _, _, _)
ReconcileOrders(d, orders, current, now) ==
    IF orders = {} THEN d
    ELSE LET order == CHOOSE o \in orders : TRUE
             d1 == IF order["sequence"] \notin current
                   THEN _handle_filled_order(d, order, now)
                   ELSE update_open_order(d, order["hash"],
                            [last_checked_ledger |-> LedgerCurrentIndex])
         IN  ReconcileOrders(d1, orders \ {order}, current, now)

\* the open orders are loaded and grouped by account
CheckOpenOrders ==
    /\ pc = "reconcile"
    /\ reconciler_runs' = reconciler_runs + 1
    /\ open_orders' = get_open_orders(db)
    /\ accounts_left' = {o["account"] : o \in open_orders'}
    /\ LET next == AfterCheckOpenOrders(ui, wi)
       IN  IF open_orders' = {}
           THEN pc' = next.pc /\ ui' = next.ui /\ wi' = next.wi
           ELSE pc' = "recon_account" /\ UNCHANGED << ui, wi >>
    /\ UNCHANGED << running, history, tip, db, cycle, walletVars, failures, wallets_done,
                    last_from >>

ReconcileDone(left) ==
    LET next == AfterCheckOpenOrders(ui, wi)
    IN  IF left = {}
        THEN pc' = next.pc /\ ui' = next.ui /\ wi' = next.wi
        ELSE UNCHANGED << pc, ui, wi >>

\* AccountOffers is answered: every loaded order of the account is checked
ReconcileAccountOk ==
    /\ pc = "recon_account"
    /\ \E account \in accounts_left :
        /\ db' = ReconcileOrders(db, {o \in open_orders : o["account"] = account},
                                 AccountOffers(account), cycle)
        /\ accounts_left' = accounts_left \ {account}
        /\ ReconcileDone(accounts_left')
    /\ UNCHANGED << running, history, tip, cycle, walletVars, open_orders, failures,
                    wallets_done, reconciler_runs, last_from >>

\* variant: a failed answer is read as an empty list of offers
ReconcileAccountFail_as_no_offers ==
    /\ pc = "recon_account"
    /\ failures < MaxNodeFailures
    /\ failures' = failures + 1
    /\ \E account \in accounts_left :
        /\ db' = ReconcileOrders(db, {o \in open_orders : o["account"] = account},
                                 {}, cycle)
        /\ accounts_left' = accounts_left \ {account}
        /\ ReconcileDone(accounts_left')
    /\ UNCHANGED << running, history, tip, cycle, walletVars, open_orders,
                    wallets_done, reconciler_runs, last_from >>

\* AccountOffers fails: the account is skipped
ReconcileAccountFail ==
    /\ pc = "recon_account"
    /\ failures < MaxNodeFailures
    /\ failures' = failures + 1
    /\ \E account \in accounts_left :
        /\ accounts_left' = accounts_left \ {account}
        /\ ReconcileDone(accounts_left')
    /\ UNCHANGED << running, history, tip, db, cycle, walletVars, open_orders,
                    wallets_done, reconciler_runs, last_from >>

\* asyncio.sleep(sleep_time) and the test of the while loop: the next
\* iteration, or the end of start() when running is False
Sleep ==
    /\ pc = "sleep"
    /\ running => cycle < MaxCycles
    /\ IF running
       THEN cycle' = cycle + 1 /\ pc' = "cycle_start"
       ELSE cycle' = cycle /\ pc' = "stopped"
    /\ UNCHANGED << running, history, tip, db, ui, wi, walletVars, open_orders,
                    accounts_left, failures, wallets_done, reconciler_runs,
                    last_from >>

Next ==
    \/ AdvanceLedger
    \/ StartCycle
    \/ GetMinLedger
    \/ RequestPageOk
    \/ RequestPageFail
    \/ ProcessTransactionOk
    \/ ProcessTransactionRaise
    \/ FinishWallet
    \/ CheckOpenOrders
    \/ ReconcileAccountOk
    \/ ReconcileAccountFail
    \/ Sleep

Spec == Init /\ [][Next]_vars

(***************************************************************************)
(* The collector under control and with a store that can fail: stop() and  *)
(* the cancellation of the task reach the driver while it is suspended in  *)
(* an await that yields to the event loop (a request to the node or a      *)
(* sleep); the store can fail where start() calls it outside the try of    *)
(* the wallet loop.  pc is "stopped" when the while loop has ended,        *)
(* "cancelled" after CancelledError and "failed" when start() has raised.  *)
(***************************************************************************)
Suspended ==
    \/ pc = "request" /\ LoopRuns
    \/ pc = "recon_account"
    \/ pc = "sleep"

\* stop(): self.running = False
Stop ==
    /\ Suspended /\ running
    /\ running' = FALSE
    /\ UNCHANGED << history, tip, db, cycle, pc, ui, wi, walletVars, open_orders,
                    accounts_left, failures, wallets_done, reconciler_runs, last_from >>

\* the task is cancelled: the pending await raises CancelledError, which no
\* "except Exception" on the way catches; start() sets running to False
Cancel ==
    /\ Suspended
    /\ pc' = "cancelled"
    /\ running' = FALSE
    /\ UNCHANGED << history, tip, db, cycle, ui, wi, walletVars, open_orders,
                    accounts_left, failures, wallets_done, reconciler_runs, last_from >>

\* _check_refresh_user_config, once the refresh interval has elapsed:
\* self.db.get_users() raises; the exception reaches "except Exception" of
\* start(), which sets running to False and re-raises
RefreshUsersFail ==
    /\ pc = "cycle_start" /\ cycle > 1
    /\ pc' = "failed"
    /\ running' = FALSE
    /\ UNCHANGED << history, tip, db, cycle, ui, wi, walletVars, open_orders,
                    accounts_left, failures, wallets_done, reconciler_runs, last_from >>

\* _check_open_orders: self.db.get_open_orders() raises, outside any try
LoadOpenOrdersFail ==
    /\ pc = "reconcile"
    /\ pc' = "failed"
    /\ running' = FALSE
    /\ UNCHANGED << history, tip, db, cycle, ui, wi, walletVars, open_orders,
                    accounts_left, failures, wallets_done, reconciler_runs, last_from >>

ControlNext ==
    \/ Next
    \/ Stop
    \/ Cancel
    \/ RefreshUsersFail
    \/ LoadOpenOrdersFail

ControlSpec == Init /\ [][ControlNext]_vars

TypeOK ==
    /\ running \in BOOLEAN
    /\ pc \in {"cycle_start", "get_min", "request", "process", "reconcile",
               "recon_account", "sleep", "stopped", "cancelled", "failed"}
    /\ retries \in 0..RetryLimit
    /\ tip \in FROM_LEDGER..MaxLedger(history)


\* the for loop over a page handles its next transaction: _process_transaction
\* returns (pos moves on) or raises (retries moves on)
ProcessStep ==
    /\ pc = "process"
    /\ \/ pos' = pos + 1 /\ retries' = retries
       \/ pos' = pos /\ retries' = retries + 1

\* the other steps of the collector
DriverStep ==
    \/ StartCycle
    \/ GetMinLedger
    \/ RequestPageOk
    \/ RequestPageFail
    \/ FinishWallet
    \/ CheckOpenOrders
    \/ ReconcileAccountOk
    \/ ReconcileAccountFail
    \/ Sleep

\* start() is one thread of control: it always takes its next step,
\* whatever the ledger does in the meantime
LiveSpec == Spec /\ WF_vars(DriverStep) /\ WF_<<pos, retries>>(ProcessStep)

(***************************************************************************)
(* The collector that is told to stop, with a node that answers every      *)
(* request: the steps of Spec without the two failing requests, and stop().*)
(***************************************************************************)
AnsweredStep ==
    \/ StartCycle
    \/ GetMinLedger
    \/ RequestPageOk
    \/ FinishWallet
    \/ CheckOpenOrders
    \/ ReconcileAccountOk
    \/ Sleep

StopNext ==
    \/ AdvanceLedger
    \/ AnsweredStep
    \/ ProcessTransactionOk
    \/ ProcessTransactionRaise
    \/ Stop

StopLiveSpec ==
    /\ Init /\ [][StopNext]_vars
    /\ WF_vars(AnsweredStep) /\ WF_<<pos, retries>>(ProcessStep)

(***************************************************************************)
(* Properties.                                                             *)
(***************************************************************************)
UserIds == {users[i].id : i \in 1..Len(users)}

(***************************************************************************)
(* The transaction handler on its own: _process_transaction applied, for   *)
(* any user, to any transaction of the ledger, from a store that holds     *)
(* nothing, W1's offer 1 resting, or that offer partly consumed by m1 as   *)
(* the update of the payment handler writes it.                            *)
(***************************************************************************)
Resting == _process_transaction(EmptyDb, tx_c1, "u1").db

PartlyConsumed ==
    ResolveByPayment(Resting, tx_m1, "u1", tx_m1.meta.AffectedNodes[1], {"m1"}).db

SeedStores == {EmptyDb, Resting, PartlyConsumed}

HandlerInit ==
    /\ running = TRUE
    /\ history \in Histories
    /\ tip = FROM_LEDGER
    /\ db \in SeedStores
    /\ cycle = 1
    /\ pc = "process"
    /\ ui = 1 /\ wi = 1
    /\ from_ledger = FROM_LEDGER
    /\ ledger_index_min = FROM_LEDGER
    /\ retries = 0
    /\ all_transactions_queried = FALSE
    /\ transactions = << >>
    /\ pos = 1
    /\ open_orders = {}
    /\ accounts_left = {}
    /\ failures = 0
    /\ wallets_done = {}
    /\ reconciler_runs = 0
    /\ last_from = [p \in WalletPairs |-> NoLedger]

\* the entries a response can hold: those of the ledger, whole or without
\* their metadata
Delivered ==
    Range(history) \cup {Unexpanded(t, f) : t \in Range(history), f \in MetaForms}

ApplyHandler ==
    /\ \E t \in Delivered : \E u \in UserIds :
            db' = _process_transaction(db, t, u).db
    /\ UNCHANGED << running, history, tip, cycle, pc, ui, wi, from_ledger, ledger_index_min,
                    retries, all_transactions_queried, transactions, pos,
                    open_orders, accounts_left, failures, wallets_done,
                    reconciler_runs, last_from >>

HandlerSpec == HandlerInit /\ [][ApplyHandler]_vars

(***************************************************************************)
(* The analysis on its own: one entry of a response, of any of the shapes  *)
(* below, is handed to _process_transaction for one of the users on an     *)
(* empty store.  Every entry carries the source tag and a fee of 1 XRP.    *)
(***************************************************************************)
Parties == {"W1", "W2", "W3", "X"}

\* Payment of 5 XRP in one currency: the sender loses amount and fee
PlainPayment(account, destination) ==
    Entry("in", 1,
          TxJson("Payment", account, destination, 41, 0, TRUE, NoAmount, NoAmount, Drops(5)),
          << >>,
          << Bal(account, << XRP(0 - 6) >>), Bal(destination, << XRP(5) >>) >>)

\* Payment that delivers 4 XRP for 2 USD through the offer of a maker M
CrossingPayment(account, destination) ==
    Entry("in", 1,
          TxJson("Payment", account, destination, 41, 0, TRUE, NoAmount, NoAmount, Drops(4)),
          << OfferNode("ModifiedNode", "M", 9, "m0", Drops(6), USD(3)) >>,
          IF account = destination
          THEN << Bal(account, << XRP(3), USD(0 - 2) >>),
                  Bal("M", << XRP(0 - 4), USD(2) >>) >>
          ELSE << Bal(account, << XRP(0 - 1), USD(0 - 2) >>),
                  Bal("M", << XRP(0 - 4), USD(2) >>),
                  Bal(destination, << XRP(4) >>) >>)

\* Payment of 5 USD: the sender's native balance changes by the fee only
TokenPayment(account, destination) ==
    Entry("in", 1,
          TxJson("Payment", account, destination, 41, 0, TRUE, NoAmount, NoAmount, USD(5)),
          << >>,
          << Bal(account, << XRP(0 - 1), USD(0 - 5) >>), Bal(destination, << USD(5) >>) >>)

PaymentInputs ==
    {t \in {PlainPayment(a, d) : a \in Parties, d \in Parties} :
        t.tx_json.Account # t.tx_json.Destination}
    \cup {t \in {TokenPayment(a, d) : a \in Parties, d \in Parties} :
        t.tx_json.Account # t.tx_json.Destination}
    \cup {CrossingPayment(a, d) : a \in Parties, d \in Parties}

\* OfferCreate of account selling sold XRP for USD.  rests: an Offer node
\* is created for the account; crossed: sold XRP were exchanged at once for
\* half as many USD; result: the TransactionResult of the metadata
OfferInput(account, sold, rests, crossed, result) ==
    LET e == Entry("in", 1,
                TxJson("OfferCreate", account, None, 51, 0, TRUE,
                       Drops(sold), USD(sold \div 2), NoAmount),
                IF rests
                THEN << OfferNode("CreatedNode", account, 51, None,
                                  Drops(sold), USD(sold \div 2)) >>
                ELSE << >>,
                IF crossed
                THEN << Bal(account, << XRP(0 - (sold + 1)), USD(sold \div 2) >>),
                        Bal("M", << XRP(sold), USD(0 - (sold \div 2)) >>) >>
                ELSE << Bal(account, << XRP(0 - 1) >>) >>)
    IN  [e EXCEPT !.meta.TransactionResult = result]

Results == {"tesSUCCESS", "tecKILLED"}

\* the exchange went through the offer of the maker M, which it consumed,
\* and not through a liquidity pool
ThroughOffer(tx) ==
    [tx EXCEPT !.meta.AffectedNodes =
        Append(@, OfferNode("DeletedNode", "M", 9, "m0", Drops(0), USD(0)))]

\* a transaction that failed changes no balance but the fee and creates no node
OfferInputs ==
    {OfferInput(a, n, r, c, "tesSUCCESS") :
        a \in {"W1", "W3"}, n \in {2, 1000}, r \in BOOLEAN, c \in BOOLEAN}
    \cup {ThroughOffer(OfferInput(a, n, r, TRUE, "tesSUCCESS")) :
        a \in {"W1", "W3"}, n \in {2, 1000}, r \in BOOLEAN}
    \cup {OfferInput(a, n, FALSE, FALSE, "tecKILLED") : a \in {"W1", "W3"}, n \in {2, 1000}}

Inputs == PaymentInputs \cup OfferInputs

AnalysisInit ==
    /\ running = TRUE
    /\ history = << >>
    /\ tip = FROM_LEDGER
    /\ db = EmptyDb
    /\ cycle = 1
    /\ pc = "process"
    /\ ui \in 1..Len(users) /\ wi = 1
    /\ from_ledger = FROM_LEDGER
    /\ ledger_index_min = FROM_LEDGER
    /\ retries = 0
    /\ all_transactions_queried = TRUE
    /\ transactions \in {<< t >> : t \in Inputs}
    /\ pos = 1
    /\ open_orders = {}
    /\ accounts_left = {}
    /\ failures = 0
    /\ wallets_done = {}
    /\ reconciler_runs = 0
    /\ last_from = [p \in WalletPairs |-> NoLedger]

\* for tx in transactions: await self._process_transaction(tx, user_id);
\* an exception ends the page and counts as a retry
AnalyseEntry ==
    /\ pc = "process" /\ pos <= Len(transactions)
    /\ LET r == _process_transaction(db, transactions[pos], users[ui].id)
       IN  /\ db' = r.db
           /\ pos' = pos + 1
           /\ retries' = IF r.raised THEN retries + 1 ELSE retries
    /\ UNCHANGED << running, history, tip, cycle, pc, ui, wi, from_ledger, ledger_index_min,
                    all_transactions_queried, transactions, open_orders,
                    accounts_left, failures, wallets_done, reconciler_runs, last_from >>

AnalysisSpec == AnalysisInit /\ [][AnalyseEntry]_vars

(***************************************************************************)
(* The taker's side: one transaction of the foreign account X that         *)
(* consumes the resting offers of the wallets W1 and W2 of user u1 is      *)
(* handed to _process_transaction while W1 is processed.  The store holds  *)
(* the offer of W1, and that of W2 when W2's history was read before.      *)
(***************************************************************************)
\* OfferCreate by W2 (Sequence 1) that rests on the book
tx_c2 ==
    Entry("c2", 1,
          TxJson("OfferCreate", "W2", None, 1, 0, TRUE, Drops(10), USD(5), NoAmount),
          << OfferNode("CreatedNode", "W2", 1, None, Drops(10), USD(5)) >>,
          << Bal("W2", << XRP(0 - 1) >>) >>)

TwoResting == _process_transaction(Resting, tx_c2, "u1").db

\* the XRP an offer of 10 XRP for 5 USD gives up: 4 when a part of it is
\* consumed (ModifiedNode), all 10 when it is consumed (DeletedNode)
Consumed(kind) == IF kind = "ModifiedNode" THEN 4 ELSE 10

\* the Offer node of the maker w
OwnNode(w, kind) ==
    OfferNode(kind, w, 1, IF w = "W1" THEN tx_c1.hash ELSE tx_c2.hash,
              IF kind = "ModifiedNode" THEN Drops(6) ELSE Drops(10),
              IF kind = "ModifiedNode" THEN USD(3) ELSE USD(5))

\* what the transaction consumes, in the order of AffectedNodes: the
\* offer of W1, or the offers of W1 and W2 in either order
Sweeps ==
    LET kinds == {"ModifiedNode", "DeletedNode"}
    IN  {<< <<"W1", k>> >> : k \in kinds}
        \cup {<< <<"W1", k1>>, <<"W2", k2>> >> : k1 \in kinds, k2 \in kinds}
        \cup {<< <<"W2", k2>>, <<"W1", k1>> >> : k1 \in kinds, k2 \in kinds}

SweepNodes(sw) == [i \in 1..Len(sw) |-> OwnNode(sw[i][1], sw[i][2])]
SweepChanges(sw) ==
    [i \in 1..Len(sw) |->
        Bal(sw[i][1], << XRP(0 - Consumed(sw[i][2])), USD(Consumed(sw[i][2]) \div 2) >>)]

RECURSIVE SweepTotal(_)
SweepTotal(sw) == IF sw = << >> THEN 0 ELSE Consumed(sw[1][2]) + SweepTotal(Tail(sw))

\* Payment X -> Y that delivers the consumed XRP for half as many USD
TakerPayment(sw, tagged) ==
    Entry("in", 2,
          TxJson("Payment", "X", "Y", 41, 0, tagged, NoAmount, NoAmount,
                 Drops(SweepTotal(sw))),
          SweepNodes(sw),
          << Bal("X", << XRP(0 - 1), USD(0 - (SweepTotal(sw) \div 2)) >>) >>
              \o SweepChanges(sw)
              \o << Bal("Y", << XRP(SweepTotal(sw)) >>) >>)

\* OfferCreate of X that buys the consumed XRP for half as many USD;
\* rests: what is left of it is placed on the book
TakerOffer(sw, rests) ==
    Entry("in", 2,
          TxJson("OfferCreate", "X", None, 41, 0, TRUE, USD(10), Drops(20), NoAmount),
          SweepNodes(sw)
              \o (IF rests
                  THEN << OfferNode("CreatedNode", "X", 41, None, USD(1), Drops(2)) >>
                  ELSE << >>),
          << Bal("X", << XRP(SweepTotal(sw) - 1), USD(0 - (SweepTotal(sw) \div 2)) >>) >>
              \o SweepChanges(sw))

\* OfferCreate of X that meets the offer of W1 when it is no longer funded:
\* the offer is removed from the book and nothing is exchanged
RemovingOffer(rests) ==
    Entry("in", 2,
          TxJson("OfferCreate", "X", None, 41, 0, TRUE, USD(10), Drops(20), NoAmount),
          << OfferNode("DeletedNode", "W1", 1, "c1", Drops(10), USD(5)) >>
              \o (IF rests
                  THEN << OfferNode("CreatedNode", "X", 41, None, USD(10), Drops(20)) >>
                  ELSE << >>),
          << Bal("X", << XRP(0 - 1) >>) >>)

TakerInputs ==
    {TakerPayment(sw, g) : sw \in Sweeps, g \in BOOLEAN}
    \cup {TakerOffer(sw, r) : sw \in Sweeps, r \in BOOLEAN}
    \cup {RemovingOffer(r) : r \in BOOLEAN}

TakerInit ==
    /\ running = TRUE
    /\ history = << >>
    /\ tip = FROM_LEDGER
    /\ db \in {Resting, TwoResting}
    /\ cycle = 1
    /\ pc = "process"
    /\ ui = 1 /\ wi = 1
    /\ from_ledger = FROM_LEDGER
    /\ ledger_index_min = FROM_LEDGER
    /\ retries = 0
    /\ all_transactions_queried = TRUE
    /\ transactions \in {<< t >> : t \in TakerInputs}
    /\ pos = 1
    /\ open_orders = {}
    /\ accounts_left = {}
    /\ failures = 0
    /\ wallets_done = {}
    /\ reconciler_runs = 0
    /\ last_from = [p \in WalletPairs |-> NoLedger]

TakerSpec == TakerInit /\ [][AnalyseEntry]_vars

(***************************************************************************)
(* The reconciler on its own: _check_open_orders is called on a store      *)
(* that holds open offers of W1 and of W2, at any point of a ledger on     *)
(* which the two offers were created and later consumed, or not.           *)
(***************************************************************************)
\* Payment X -> Y that consumes W2's offer 1 completely
tx_d2 == [TakerPayment(<< <<"W2", "DeletedNode">> >>, FALSE) EXCEPT !.hash = "d2"]

ReconcilerInit ==
    /\ running = TRUE
    /\ history \in {<< tx_c1, tx_c2 >> \o rest :
                        rest \in {<< >>, << tx_d2 >>, << tx_d1 >>, << tx_d2, tx_d1 >>}}
    /\ tip \in FROM_LEDGER..MaxLedger(history)
    /\ db \in {Resting, _process_transaction(EmptyDb, tx_c2, "u1").db, TwoResting}
    /\ cycle = 1
    /\ pc = "reconcile"
    /\ ui = Len(users) /\ wi = Len(users[Len(users)].wallets)
    /\ from_ledger = FROM_LEDGER
    /\ ledger_index_min = FROM_LEDGER
    /\ retries = 0
    /\ all_transactions_queried = TRUE
    /\ transactions = << >>
    /\ pos = 1
    /\ open_orders = {}
    /\ accounts_left = {}
    /\ failures = 0
    /\ wallets_done = WalletPairs
    /\ reconciler_runs = 0
    /\ last_from = [p \in WalletPairs |-> FROM_LEDGER]

ReconcilerNext ==
    \/ CheckOpenOrders
    \/ ReconcileAccountOk
    \/ ReconcileAccountFail

ReconcilerSpec == ReconcilerInit /\ [][ReconcilerNext]_vars

\* the entry under analysis, its user and the user's wallets
Entry1 == transactions[1]
User1 == users[ui].id
Analysed == pc = "process" /\ Len(transactions) = 1 /\ pos = 2

Terminal(d) == (DOMAIN d.filled_orders) \cup (DOMAIN d.canceled_orders)

\* the status of offer h in the store: the open record while there is one
OfferStatus(d, h) ==
    IF h \in DOMAIN d.open_orders THEN d.open_orders[h]["status"]
    ELSE IF h \in DOMAIN d.filled_orders THEN "filled"
    ELSE IF h \in DOMAIN d.canceled_orders THEN "canceled"
    ELSE "none"

LegalTransitions ==
    {<<"none", "open">>, <<"none", "filled">>, <<"open", "partially_filled">>,
     <<"open", "filled">>, <<"partially_filled", "filled">>, <<"open", "canceled">>}

\* C1: the statuses an offer takes in the store follow the legal paths
\* (none)->OPEN, (none)->FILLED, OPEN->PARTIALLY_FILLED,
\* OPEN|PARTIALLY_FILLED->FILLED, OPEN->CANCELED; no step leads back to OPEN.
C1_LegalLifecycle ==
    [][\A h \in PoolHashes :
        \/ OfferStatus(db', h) = OfferStatus(db, h)
        \/ <<OfferStatus(db, h), OfferStatus(db', h)>> \in LegalTransitions]_vars

\* the transactions that were processed for the terminal offer h: the
\* OfferCreate that made it and the OfferCancel named by its record
ProcessedFor(d, h) ==
    {t \in Range(history) :
        \/ t.hash = h
        \/ /\ h \in DOMAIN d.canceled_orders
           /\ d.canceled_orders[h]["cancel_tx_hash"] = t.hash}

TerminalUser(d, h) ==
    IF h \in DOMAIN d.canceled_orders THEN d.canceled_orders[h]["user_id"]
    ELSE d.filled_orders[h]["user_id"]

\* C2: once an offer has a terminal record, processing again a transaction
\* already processed for it leaves the whole store unchanged.
C2_ReplayAfterTerminalIsNoOp ==
    \A h \in Terminal(db) : \A t \in ProcessedFor(db, h) :
        _process_transaction(db, t, TerminalUser(db, h)).db = db

\* C3: from every reachable store, _process_transaction(T, U) twice in a
\* row leaves the same store as _process_transaction(T, U) once.
C3_ProcessTwiceSameAsOnce ==
    \A t \in Range(history) : \A u \in UserIds :
        LET once == _process_transaction(db, t, u).db
        IN  _process_transaction(once, t, u).db = once

\* the OfferCancel was the last transaction of a page and has just been
\* processed again as the only transaction of the next page
C3_Witness ==
    /\ pc = "request" /\ pos = 2
    /\ transactions = << tx_k1 >>
    /\ "c1" \in DOMAIN db.canceled_orders
    /\ "k1" \in DOMAIN db.transactions

\* C4: a record of the filled store or of the canceled store never changes
\* once it is written.
C4_TerminalRecordsImmutable ==
    [][/\ \A h \in DOMAIN db.filled_orders :
            h \in DOMAIN db'.filled_orders /\ db'.filled_orders[h] = db.filled_orders[h]
       /\ \A h \in DOMAIN db.canceled_orders :
            h \in DOMAIN db'.canceled_orders /\ db'.canceled_orders[h] = db.canceled_orders[h]]_vars

\* the offers for which this step of the reconciler writes an inferred fill
InferredNow(h) ==
    /\ pc = "recon_account"
    /\ h \in DOMAIN db.open_orders
    /\ h \notin DOMAIN db'.open_orders

\* C5: the reconciler acts only on offers with status OPEN or
\* PARTIALLY_FILLED and never writes an inferred FILLED record for an offer
\* that already has a record in the filled or the canceled store.
C5_ReconcilerLeavesTerminalAlone ==
    [][/\ \A o \in open_orders : pc = "recon_account" =>
            o["status"] \in {"open", "partially_filled"}
       /\ \A h \in PoolHashes : InferredNow(h) => h \notin Terminal(db)]_vars

\* C6: in a cycle the reconciler runs once, after _process_wallet has
\* returned for every wallet of every user, and no wallet is processed
\* after it.
C6_ReconcilerAfterAllWallets ==
    /\ pc \in {"get_min", "request", "process"} => reconciler_runs = 0
    /\ pc = "reconcile" => reconciler_runs = 0 /\ wallets_done = WalletPairs
    /\ pc \in {"recon_account", "sleep"} =>
            reconciler_runs = 1 /\ wallets_done = WalletPairs

\* the end of a cycle of a run in which requests to the node have failed
C6_Witness ==
    /\ pc = "sleep" /\ reconciler_runs = 1
    /\ wallets_done = WalletPairs
    /\ failures >= RetryLimit

\* the transactions of the visible history, from the cursor of the owning
\* wallet on, that cancel or consume the offer of the order
Resolving(order) ==
    {t \in Visible :
        /\ t.ledger_index >= _get_min_ledger_index(db, order["user_id"], order["account"])
        /\ OfferTouched(t, {"DeletedNode", "ModifiedNode"}, order["account"], order["sequence"])}

\* C7: the reconciler never records an inferred fill for an offer while an
\* explicit OfferCancel or a consuming transaction of that offer is in the
\* wallet's history at or after the wallet's cursor.
C7_ExplicitBeforeInferred ==
    [][\A h \in PoolHashes : InferredNow(h) =>
        Resolving(db.open_orders[h]) = {}]_vars

\* C8: from_ledger of a wallet never decreases from one cycle to the next,
\* and ledger_index_min never decreases inside one _process_wallet.
C8_CursorMonotonic ==
    [][/\ (pc = "get_min" /\ pc' = "request" /\ last_from[<<ui, wi>>] # NoLedger) =>
            from_ledger' >= last_from[<<ui, wi>>]
       /\ (pc \in {"request", "process"} /\ pc' \in {"request", "process"}) =>
            ledger_index_min' >= ledger_index_min]_vars

\* a later cycle of a wallet whose ledger_index_min has moved on
C8_Witness ==
    /\ cycle >= 2 /\ pc = "request"
    /\ last_from[<<ui, wi>>] # NoLedger
    /\ ledger_index_min > from_ledger

\* the cursor of the specification: the highest ledger_index of the stored
\* transactions of the user that the wallet sent or received
StoredFor(d, u, w) ==
    {h \in DOMAIN d.transactions :
        /\ d.transactions[h]["user_id"] = u
        /\ \/ d.transactions[h]["tx_json"].Account = w
           \/ d.transactions[h]["tx_json"].Destination = w}

\* C9: at the start of a wallet, from_ledger is the highest ledger_index of
\* the stored transactions of (user_id, wallet), and FROM_LEDGER only when
\* there is none.
C9_CursorIsMaxStored ==
    [][(pc = "get_min" /\ pc' = "request") =>
        LET S == StoredFor(db, user_id, wallet)
        IN  IF S = {} THEN from_ledger' = FROM_LEDGER
            ELSE /\ \E h \in S : from_ledger' = db.transactions[h]["ledger_index"]
                 /\ \A h \in S : from_ledger' >= db.transactions[h]["ledger_index"]]_vars

\* C10: with a node that answers every request, _process_wallet returns.
C10_ProcessWalletTerminates ==
    \A p \in WalletPairs :
        (pc = "get_min" /\ <<ui, wi>> = p /\ failures = 0)
            ~> (p \in wallets_done \/ failures > 0)

\* C11: a wallet whose requests keep failing is given up for this cycle when
\* retries reaches the limit, not before, and the cycle goes on: the next
\* step of the collector starts a wallet not yet processed in this cycle or,
\* after the last wallet, goes to the reconciler.
C11_AbandonedWalletCycleContinues ==
    [][/\ (pc = "request" /\ ~all_transactions_queried /\ retries >= RetryLimit
            /\ tip' = tip) =>
            /\ wallets_done' = wallets_done \cup {<<ui, wi>>}
            /\ cycle' = cycle /\ db' = db /\ reconciler_runs' = 0
            /\ \/ pc' = "get_min" /\ <<ui', wi'>> \in WalletPairs \ wallets_done'
               \/ pc' = "reconcile" /\ wallets_done' = WalletPairs
       /\ (pc = "request" /\ ~all_transactions_queried /\ retries < RetryLimit) =>
            /\ pc' \in {"request", "process"}
            /\ <<ui', wi'>> = <<ui, wi>> /\ wallets_done' = wallets_done]_vars

\* the second wallet starts in a cycle in which three requests for the
\* first wallet have failed
C11_Witness ==
    /\ cycle = 1 /\ pc = "request" /\ <<ui, wi>> = <<1, 2>>
    /\ retries = 0 /\ failures >= RetryLimit
    /\ wallets_done = {<<1, 1>>}

\* the transactions of the current page that were handed to
\* _process_transaction: those before pos, and the one at pos when it raised
HandedOfPage ==
    {transactions[i] : i \in {j \in 1..Len(transactions) : j <= pos}}

\* C12: inside one _process_wallet no transaction is handed to
\* _process_transaction twice and none after a transaction of a higher
\* ledger index, inside a page and from one page to the next.
C12_HandedOverAscending ==
    [][/\ (pc = "request" /\ pc' = "process") =>
            \A t \in HandedOfPage :
                /\ transactions'[1].hash # t.hash
                /\ transactions'[1].ledger_index >= t.ledger_index
       /\ (pc = "process" /\ pos > 1) =>
            /\ transactions[pos].hash # transactions[pos - 1].hash
            /\ transactions[pos].ledger_index >= transactions[pos - 1].ledger_index]_vars

\* the stored amount is the amount of the transaction: drops for XRP,
\* (currency, issuer, value) for an issued amount
SameAmount(stored, sent) ==
    IF "drops" \in DOMAIN sent
    THEN stored.currency = "XRP" /\ stored.value * DropsPerXrp = sent.drops
    ELSE /\ stored.currency = sent.currency
         /\ stored.issuer = sent.issuer
         /\ stored.value = sent.value

\* collection after differs from collection before at most at key h
OnlyChangedAt(before, after, h) ==
    /\ (DOMAIN after) \ {h} = (DOMAIN before) \ {h}
    /\ \A k \in (DOMAIN before) \ {h} : after[k] = before[k]

\* C13: processing an OfferCreate that rests on the book puts one OPEN record
\* under the transaction hash in the open store, with the Sequence, the
\* TakerGets and TakerPays, the ledger index as created_ledger_index and
\* last_checked_ledger, and the fee of the transaction; the filled and the
\* canceled store stay as they are.
C13_OpenOfferRecorded ==
    \A t \in Range(history) : \A u \in UserIds :
        (t.tx_json.TransactionType = "OfferCreate" /\ ~is_offer_filled(t)) =>
            LET r == _process_transaction(db, t, u)
                after == r.db
            IN  /\ ~r.raised
                /\ t.hash \in DOMAIN after.open_orders
                /\ OnlyChangedAt(db.open_orders, after.open_orders, t.hash)
                /\ LET rec == after.open_orders[t.hash]
                   IN  /\ rec["hash"] = t.hash
                       /\ rec["status"] = "open"
                       /\ rec["user_id"] = u
                       /\ rec["account"] = t.tx_json.Account
                       /\ rec["sequence"] = t.tx_json.Sequence
                       /\ SameAmount(rec["taker_gets"], t.tx_json.TakerGets)
                       /\ SameAmount(rec["taker_pays"], t.tx_json.TakerPays)
                       /\ rec["created_ledger_index"] = t.ledger_index
                       /\ rec["last_checked_ledger"] = t.ledger_index
                       /\ rec["fee_xrp"] * DropsPerXrp = t.tx_json.Fee
                /\ after.filled_orders = db.filled_orders
                /\ after.canceled_orders = db.canceled_orders

\* the OfferCreate has just been processed and its offer is in the open store
C13_Witness ==
    /\ pc = "process" /\ pos = 2
    /\ transactions[1] = tx_c1
    /\ "c1" \in DOMAIN db.open_orders
    /\ db.open_orders["c1"]["status"] = "open"

\* the open orders that an OfferCancel names: same account, Sequence = OfferSequence
NamedBy(d, t) ==
    get_open_order_by_sequence(d, t.tx_json.Account, t.tx_json.OfferSequence)

\* C14: processing an OfferCancel that names an offer held with status OPEN
\* moves the offer to the canceled store, status CANCELED, with the hash and
\* the fee of the cancel, and takes it out of the open store; no other offer
\* changes.
C14_CancelOfOpenOffer ==
    \A t \in Range(history) : \A u \in UserIds : \A o \in NamedBy(db, t) :
        (t.tx_json.TransactionType = "OfferCancel" /\ o["status"] = "open") =>
            LET r == _process_transaction(db, t, u)
                after == r.db
                h == o["hash"]
            IN  /\ ~r.raised
                /\ h \notin DOMAIN after.open_orders
                /\ OnlyChangedAt(db.open_orders, after.open_orders, h)
                /\ h \in DOMAIN after.canceled_orders
                /\ OnlyChangedAt(db.canceled_orders, after.canceled_orders, h)
                /\ LET rec == after.canceled_orders[h]
                   IN  /\ rec["status"] = "canceled"
                       /\ rec["cancel_tx_hash"] = t.hash
                       /\ rec["cancel_fee_xrp"] * DropsPerXrp = t.tx_json.Fee
                       /\ rec["account"] = o["account"]
                       /\ rec["sequence"] = o["sequence"]
                       /\ rec["taker_gets"] = o["taker_gets"]
                       /\ rec["taker_pays"] = o["taker_pays"]
                /\ after.filled_orders = db.filled_orders

\* the OfferCancel, last of its page, has just moved the offer
C14_Witness ==
    /\ pc = "request" /\ pos = 3
    /\ transactions = << tx_c1, tx_k1 >>
    /\ "c1" \in DOMAIN db.canceled_orders
    /\ "c1" \notin DOMAIN db.open_orders

C16_CancelWithoutOfferIsDropped ==
    \A t \in Range(history) : \A u \in UserIds :
        (t.tx_json.TransactionType = "OfferCancel" /\ NamedBy(db, t) = {}) =>
            LET r == _process_transaction(db, t, u)
            IN  /\ ~r.raised
                /\ r.db.open_orders = db.open_orders
                /\ r.db.filled_orders = db.filled_orders
                /\ r.db.canceled_orders = db.canceled_orders
                /\ r.db.market_trades = db.market_trades

\* the OfferCancel was processed and the offer it names was never stored
C16_Witness ==
    /\ "k1" \in DOMAIN db.transactions
    /\ "c1" \notin DOMAIN db.transactions
    /\ tx_k1 \in Range(history)
    /\ NamedBy(db, tx_k1) = {}
    /\ DOMAIN db.canceled_orders = {}

\* the fields of an open record that a repeated offer_open must not touch
GuardedFields == {"status", "last_checked_ledger", "filled_gets", "filled_pays", "trades"}

\* C17: processing an offer_open event for an (account, sequence) that has
\* a record in the open store leaves that record's status,
\* last_checked_ledger, filled_gets, filled_pays and trades unchanged.
C17_DuplicateOpenIsDropped ==
    \A t \in Range(history) : \A u \in UserIds :
        \A o \in get_open_order_by_sequence(db, t.tx_json.Account, t.tx_json.Sequence) :
            (t.tx_json.TransactionType = "OfferCreate" /\ ~is_offer_filled(t)) =>
                LET after == _process_transaction(db, t, u).db
                    h == o["hash"]
                IN  /\ h \in DOMAIN after.open_orders
                    /\ \A f \in GuardedFields \cap DOMAIN o :
                            /\ f \in DOMAIN after.open_orders[h]
                            /\ after.open_orders[h][f] = o[f]
                    /\ \A f \in GuardedFields \ DOMAIN o :
                            f \notin DOMAIN after.open_orders[h]

\* the own open offers that a Payment by another account touches with a
\* node of the given kind, each with the node that touches it
TouchedBy(d, t, u, kind) ==
    {<<o, t.meta.AffectedNodes[i]>> :
        o \in get_open_orders(d),
        i \in {k \in OfferNodes(t, {kind}) :
                    t.meta.AffectedNodes[k].FinalFields.Account \in user_wallets(u)}}
    \cap
    {p \in get_open_orders(d) \X Range(t.meta.AffectedNodes) :
        /\ p[1]["account"] = p[2].FinalFields.Account
        /\ p[1]["sequence"] = p[2].FinalFields.Sequence
        /\ t.tx_json.Account # p[1]["account"]}

\* C18: after a Payment by another account that modifies an own open
\* offer is processed, the stored offer has status PARTIALLY_FILLED, its
\* taker_gets and taker_pays are the original ones, and its filled_gets and
\* filled_pays are the original amounts minus the TakerGets and TakerPays
\* of the FinalFields of the modification.
C18_ModifiedOfferPartiallyFilled ==
    \A t \in Range(history) : \A u \in UserIds :
        \A p \in TouchedBy(db, t, u, "ModifiedNode") :
            t.tx_json.TransactionType = "Payment" =>
                LET o == p[1]
                    final == p[2].FinalFields
                    after == _process_transaction(db, t, u).db
                    h == o["hash"]
                IN  /\ h \in DOMAIN after.open_orders
                    /\ LET rec == after.open_orders[h]
                       IN  /\ rec["status"] = "partially_filled"
                           /\ rec["taker_gets"] = o["taker_gets"]
                           /\ rec["taker_pays"] = o["taker_pays"]
                           /\ "filled_gets" \in DOMAIN rec
                           /\ "filled_pays" \in DOMAIN rec
                           /\ rec["filled_gets"] =
                                AmountDifference(o["taker_gets"], from_xrpl_amount(final.TakerGets))
                           /\ rec["filled_pays"] =
                                AmountDifference(o["taker_pays"], from_xrpl_amount(final.TakerPays))

\* C19: when a Payment by another account that deletes an own offer held
\* in the open store with status OPEN or PARTIALLY_FILLED is processed, the
\* offer gets a FILLED record in the filled store with filled_gets and
\* filled_pays equal to the original taker_gets and taker_pays, the trade of
\* the Payment is one of its trades, and the offer leaves the open store.
C19_DeletedOfferFilled ==
    \A t \in Range(history) : \A u \in UserIds :
        \A p \in TouchedBy(db, t, u, "DeletedNode") :
            (t.tx_json.TransactionType = "Payment"
             /\ p[1]["status"] \in {"open", "partially_filled"}) =>
                LET o == p[1]
                    after == _process_transaction(db, t, u).db
                    h == o["hash"]
                IN  /\ h \notin DOMAIN after.open_orders
                    /\ h \in DOMAIN after.filled_orders
                    /\ LET rec == after.filled_orders[h]
                       IN  /\ rec["status"] = "filled"
                           /\ rec["filled_gets"] = o["taker_gets"]
                           /\ rec["filled_pays"] = o["taker_pays"]
                           /\ t.hash \in rec["trades"]

\* C20: when the reconciler has queried an account's offers successfully,
\* every persisted open offer of the account whose sequence is not among
\* them is in the filled store with status FILLED, resolution_method
\* inferred, filled_gets = taker_gets, filled_pays = taker_pays and
\* resolved_ledger_index = the offer's last_checked_ledger, and is no longer
\* in the open store.
C20_InferredFill ==
    [][(pc = "recon_account" /\ accounts_left' # accounts_left /\ failures' = failures) =>
        \A o \in open_orders :
            (o["account"] \in accounts_left \ accounts_left'
             /\ o["sequence"] \notin AccountOffers(o["account"])) =>
                /\ o["hash"] \notin DOMAIN db'.open_orders
                /\ o["hash"] \in DOMAIN db'.filled_orders
                /\ LET rec == db'.filled_orders[o["hash"]]
                   IN  /\ rec["status"] = "filled"
                       /\ rec["resolution_method"] = "inferred"
                       /\ rec["filled_gets"] = o["taker_gets"]
                       /\ rec["filled_pays"] = o["taker_pays"]
                       /\ rec["resolved_ledger_index"] = o["last_checked_ledger"]]_vars

\* the reconciler has just resolved offer 1 of W1, which a Payment had
\* consumed: the query is done and the offer is in the filled store
C20_Witness ==
    /\ reconciler_runs = 1
    /\ pc = "sleep" /\ accounts_left = {}
    /\ \E o \in open_orders : o["hash"] = "c1" /\ o["account"] = "W1"
    /\ tx_d1 \in Range(history)
    /\ "c1" \in DOMAIN db.filled_orders
    /\ db.filled_orders["c1"]["resolution_method"] = "inferred"
    /\ "c1" \notin DOMAIN db.open_orders

\* C21: when the reconciler has queried an account's offers successfully,
\* every persisted open offer of the account whose sequence is among them
\* keeps every field but last_checked_ledger, which becomes the ledger index
\* of the response; nothing is written for it to the filled or canceled
\* store.
C21_StillOnBookOnlyChecked ==
    [][(pc = "recon_account" /\ accounts_left' # accounts_left /\ failures' = failures) =>
        \A o \in open_orders :
            (o["account"] \in accounts_left \ accounts_left'
             /\ o["sequence"] \in AccountOffers(o["account"])) =>
                LET h == o["hash"]
                IN  /\ h \in DOMAIN db.open_orders
                    /\ h \in DOMAIN db'.open_orders
                    /\ DOMAIN db'.open_orders[h] =
                            DOMAIN db.open_orders[h] \cup {"last_checked_ledger"}
                    /\ \A f \in DOMAIN db'.open_orders[h] :
                            IF f = "last_checked_ledger"
                            THEN db'.open_orders[h][f] = tip + 1
                            ELSE db'.open_orders[h][f] = db.open_orders[h][f]
                    /\ (h \in DOMAIN db'.filled_orders) = (h \in DOMAIN db.filled_orders)
                    /\ h \in DOMAIN db.filled_orders =>
                            db'.filled_orders[h] = db.filled_orders[h]
                    /\ db'.canceled_orders = db.canceled_orders]_vars

\* the reconciler has found offer 1 of W1 on the book two ledgers after
\* its creation
C21_Witness ==
    /\ reconciler_runs = 1
    /\ pc = "sleep" /\ accounts_left = {}
    /\ "c1" \in DOMAIN db.open_orders
    /\ db.open_orders["c1"]["status"] = "open"
    /\ db.open_orders["c1"]["last_checked_ledger"] = tip + 1
    /\ db.open_orders["c1"]["created_ledger_index"] < tip

\* C22: every record of the filled store has
\* created_ledger_index <= resolved_ledger_index.
C22_CreatedBeforeResolved ==
    \A h \in DOMAIN db.filled_orders :
        LET rec == db.filled_orders[h]
        IN  /\ {"created_ledger_index", "resolved_ledger_index"} \subseteq DOMAIN rec
            /\ rec["created_ledger_index"] >= FROM_LEDGER
            /\ rec["created_ledger_index"] <= rec["resolved_ledger_index"]

\* the filled store holds an offer that the reconciler resolved in a
\* ledger after the one that created it
C22_Witness ==
    \E h \in DOMAIN db.filled_orders :
        /\ "resolution_method" \in DOMAIN db.filled_orders[h]
        /\ db.filled_orders[h]["resolution_method"] = "inferred"
        /\ db.filled_orders[h]["created_ledger_index"] <
                db.filled_orders[h]["resolved_ledger_index"]

\* C23: processing a transaction whose metadata is absent or an unexpanded
\* string does not raise and changes nothing in the open, filled, canceled,
\* deposits/withdrawals and trade stores; the transaction is stored when it
\* carries the source tag.
C23_MalformedMetadataIsOther ==
    \A t \in Range(history) : \A f \in MetaForms : \A u \in UserIds :
        LET r == _process_transaction(db, Unexpanded(t, f), u)
        IN  /\ ~r.raised
            /\ r.db.open_orders = db.open_orders
            /\ r.db.filled_orders = db.filled_orders
            /\ r.db.canceled_orders = db.canceled_orders
            /\ r.db.deposits_withdrawals = db.deposits_withdrawals
            /\ r.db.market_trades = db.market_trades
            /\ has_source_tag(t, SOURCE_TAG) => t.hash \in DOMAIN r.db.transactions

\* the nature that the analysis assigns; None when it assigns none
NatureOf(tx, wallets) ==
    LET enriched_tx == analyze_transaction(tx, wallets).tx
    IN  IF "transaction_nature" \in DOMAIN enriched_tx
        THEN enriched_tx["transaction_nature"] ELSE None

\* C24: for every Payment and every user's wallet set U the nature is
\* internal_transfer iff Account and Destination are in U, withdrawal iff
\* only Account is, deposit iff only Destination is, and market_trade only
\* when neither is in U, whatever offers or currencies the Payment touched.
C24_PaymentNature ==
    Entry1.tx_json.TransactionType = "Payment" =>
        LET U == user_wallets(User1)
            from == Entry1.tx_json.Account \in U
            to == Entry1.tx_json.Destination \in U
            nature == NatureOf(Entry1, U)
        IN  /\ nature = "internal_transfer" <=> (from /\ to)
            /\ nature = "withdrawal" <=> (from /\ ~to)
            /\ nature = "deposit" <=> (~from /\ to)
            /\ nature = "market_trade" => (~from /\ ~to)
            /\ (Analysed /\ "in" \in DOMAIN db.transactions) =>
                    /\ "transaction_nature" \in DOMAIN db.transactions["in"] <=> nature # None
                    /\ nature # None => db.transactions["in"]["transaction_nature"] = nature

\* a Payment from W1 to W2 that went through an offer has been analysed
\* for their user and is stored as an internal transfer
C24_Witness ==
    /\ Analysed /\ User1 = "u1"
    /\ Entry1 = CrossingPayment("W1", "W2")
    /\ "in" \in DOMAIN db.transactions
    /\ db.transactions["in"]["transaction_nature"] = "internal_transfer"

\* the account has a CreatedNode of type Offer that it owns
CreatedOwnOffer(tx) ==
    \E i \in OfferNodes(tx, {"CreatedNode"}) :
        tx.meta.AffectedNodes[i].FinalFields.Account = tx.tx_json.Account

\* every balance change of the account is the fee
BalanceFeeOnly(tx) ==
    \A i \in 1..Len(tx.meta.balance_changes) :
        tx.meta.balance_changes[i].account = tx.tx_json.Account =>
            \A j \in 1..Len(tx.meta.balance_changes[i].balances) :
                FeeOnly(tx.meta.balance_changes[i].balances[j], get_transaction_fee(tx))

\* C25: an OfferCreate is classified offer_open iff its metadata has a
\* CreatedNode of type Offer owned by the account and the account's balance
\* change is fee-only, and offer_filled in every other case; an open
\* offer is stored for the one and a filled offer for the other.
C25_OfferClassification ==
    Entry1.tx_json.TransactionType = "OfferCreate" =>
        LET open == CreatedOwnOffer(Entry1) /\ BalanceFeeOnly(Entry1)
        IN  /\ is_offer_filled(Entry1) <=> ~open
            /\ Analysed =>
                /\ "in" \in DOMAIN db.open_orders <=> open
                /\ "in" \in DOMAIN db.filled_orders <=> ~open

\* the balance changes of the sender, and whether they are native only
SenderBalances(tx) ==
    LET bcs == tx.meta.balance_changes
        idx == {i \in 1..Len(bcs) : bcs[i].account = tx.tx_json.Account}
    IN  IF idx = {} THEN << >>
        ELSE bcs[CHOOSE i \in idx : \A j \in idx : i <= j].balances

NativeOnly(changes) ==
    Len(changes) = 1 /\ changes[1].currency = "XRP"

C27_InternalTransferRecorded ==
    (/\ Analysed
     /\ Entry1.tx_json.TransactionType = "Payment"
     /\ Entry1.tx_json.Account # Entry1.tx_json.Destination
     /\ {Entry1.tx_json.Account, Entry1.tx_json.Destination}
            \subseteq user_wallets(User1)) =>
        /\ DOMAIN db.deposits_withdrawals = {"in"}
        /\ LET rec == db.deposits_withdrawals["in"]
           IN  /\ rec["type"] = "internal_transfer"
               /\ rec["from_address"] = Entry1.tx_json.Account
               /\ rec["to_address"] = Entry1.tx_json.Destination
               /\ SameAmount(rec["amount"], Entry1.tx_json.Amount)

\* C28: for an OfferCreate that is filled at once and sells the native
\* asset, the filled record's filled_gets is the amount sold without the
\* fee and does not exceed taker_gets; filled_pays is the amount received.
C28_ImmediateFillNetOfFee ==
    (/\ Analysed
     /\ Entry1.tx_json.TransactionType = "OfferCreate"
     /\ Entry1.meta.TransactionResult = "tesSUCCESS"
     /\ \E j \in 1..Len(SenderBalances(Entry1)) :
            /\ SenderBalances(Entry1)[j].currency = "XRP"
            /\ ~FeeOnly(SenderBalances(Entry1)[j], get_transaction_fee(Entry1))
            /\ SenderBalances(Entry1)[j].value < 0) =>
        /\ "in" \in DOMAIN db.filled_orders
        /\ LET rec == db.filled_orders["in"]
               sold == CHOOSE c \in Range(SenderBalances(Entry1)) : c.value < 0
               bought == CHOOSE c \in Range(SenderBalances(Entry1)) : c.value > 0
           IN  /\ rec["status"] = "filled"
               /\ rec["filled_gets"].currency = "XRP"
               /\ rec["filled_gets"].value * DropsPerXrp + Entry1.tx_json.Fee =
                        Abs(sold.value) * DropsPerXrp
               /\ rec["filled_gets"].value <= rec["taker_gets"].value
               /\ rec["filled_pays"].currency = bought.currency
               /\ rec["filled_pays"].value = bought.value

\* C29: an error that affects a whole cycle, the store failing while the
\* users are refreshed or while the reconciler loads the open offers, does
\* not terminate the collector: the driver goes on to its sleep and start()
\* does not end.
C29_CycleErrorDoesNotTerminate ==
    [][(pc = "cycle_start" \/ pc = "reconcile") =>
            (pc' # "failed" /\ running' = running)]_vars

\* C30: after a stop request has arrived while a wallet is processed, the
\* driver starts no further wallet.
C30_NoWalletStartedAfterStop ==
    [][~running => ~(pc # "get_min" /\ pc' = "get_min")]_vars

\* C31: after stop() has set running to False, start() eventually returns:
\* the collection loop is left and no new cycle is started.
C31_StopEventuallyReturns == (~running) ~> (pc = "stopped")

\* C32: the retry budget applies to each paginated request separately: when
\* a page has been fetched and processed successfully and another request
\* follows, the full budget is available again (no failure is counted).
C32_RetryBudgetPerPage ==
    [][(pc = "process" /\ pc' = "request" /\ retries' = retries
            /\ ~all_transactions_queried')
        => retries' = 0]_vars

\* the open records that the Offer node n of a transaction belongs to
OpenRecordsOf(d, n) ==
    {h \in DOMAIN d.open_orders :
        /\ d.open_orders[h]["account"] = n.FinalFields.Account
        /\ d.open_orders[h]["sequence"] = n.FinalFields.Sequence}

\* C33: when one Payment consumes several open offers of the user, every
\* one of them is updated by processing that Payment: to FILLED (terminal
\* record, open record deleted) for a DeletedNode, to PARTIALLY_FILLED for
\* a ModifiedNode, and not only the first offer node of AffectedNodes.
C33_EveryConsumedOfferUpdated ==
    [][(pc = "process" /\ pos = 1 /\ pos' = 2
            /\ Entry1.tx_json.TransactionType = "Payment")
        => \A i \in {k \in OfferNodes(Entry1, {"DeletedNode", "ModifiedNode"}) :
                        Entry1.meta.AffectedNodes[k].FinalFields.Account
                            \in user_wallets(User1)} :
              \A h \in OpenRecordsOf(db, Entry1.meta.AffectedNodes[i]) :
                  IF Entry1.meta.AffectedNodes[i].kind = "DeletedNode"
                  THEN h \in DOMAIN db'.filled_orders /\ h \notin DOMAIN db'.open_orders
                  ELSE /\ h \in DOMAIN db'.open_orders
                       /\ db'.open_orders[h]["status"] = "partially_filled"]_vars

\* C34: a transaction whose TransactionResult is not tesSUCCESS creates no
\* offer: processing a failed OfferCreate inserts no record in the open
\* store and none in the filled store.
C34_FailedOfferCreatesNoRecord ==
    (Analysed /\ Entry1.tx_json.TransactionType = "OfferCreate"
        /\ Entry1.meta.TransactionResult # "tesSUCCESS")
    => /\ Entry1.hash \notin DOMAIN db.open_orders
       /\ Entry1.hash \notin DOMAIN db.filled_orders

\* no persisted offer of the account is changed by the step
OffersOfUntouched(account) ==
    \A h \in DOMAIN db.open_orders :
        db.open_orders[h]["account"] = account
        => /\ h \in DOMAIN db'.open_orders
           /\ db'.open_orders[h] = db.open_orders[h]
           /\ (h \in DOMAIN db'.filled_orders) = (h \in DOMAIN db.filled_orders)

\* every loaded offer of the account is marked filled or checked
OffersOfReconciled(account) ==
    \A o \in {l \in open_orders : l["account"] = account} :
        IF o["sequence"] \in AccountOffers(account)
        THEN /\ o["hash"] \in DOMAIN db'.open_orders
             /\ db'.open_orders[o["hash"]]["last_checked_ledger"] = LedgerCurrentIndex
        ELSE /\ o["hash"] \in DOMAIN db'.filled_orders
             /\ o["hash"] \notin DOMAIN db'.open_orders

\* C35: if the current-offers query for one account fails, the reconciler
\* changes none of that account's persisted offers in this cycle (none is
\* marked filled, none has last_checked_ledger updated), and it goes on to
\* the other accounts, whose offers are reconciled as usual.
C35_FailedQueryChangesNothing ==
    [][pc = "recon_account"
        => \E account \in accounts_left :
              /\ accounts_left' = accounts_left \ {account}
              /\ accounts_left' # {} => pc' = "recon_account"
              /\ IF failures' # failures
                 THEN OffersOfUntouched(account)
                 ELSE OffersOfReconciled(account)]_vars

\* W1's query failed and W2's was answered: W1's offer is as it was stored
\* and W2's offer is marked filled or checked
C35_Witness ==
    /\ pc = "sleep" /\ failures = 1 /\ accounts_left = {}
    /\ "c1" \in DOMAIN db.open_orders
    /\ db.open_orders["c1"]["last_checked_ledger"] = tx_c1.ledger_index
    /\ LedgerCurrentIndex # tx_c1.ledger_index
    /\ \/ "c2" \in DOMAIN db.filled_orders
       \/ /\ "c2" \in DOMAIN db.open_orders
          /\ db.open_orders["c2"]["last_checked_ledger"] = LedgerCurrentIndex

\* C36: in every state reached between two transaction-processing steps
\* or reconciler steps, each offer hash has a record in at most one of the
\* open, filled and canceled stores.
C36_OneStorePerOffer ==
    \A h \in PoolHashes :
        Cardinality({s \in {"open_orders", "filled_orders", "canceled_orders"} :
                        h \in DOMAIN db[s]}) <= 1

\* the transaction at hand raises and h follows it on the page
RaisesBefore(h, c) ==
    /\ cycle = c /\ pc = "process"
    /\ _process_transaction(db, transactions[pos], user_id).raised
    /\ \E k \in (pos + 1)..Len(transactions) : transactions[k].hash = h

\* C37: if processing one transaction of a wallet raises an exception, the
\* transactions that follow it in the wallet's history are still processed
\* in the same cycle.
C37_LaterTransactionsStillProcessed ==
    \A h \in PoolHashes : \A c \in 1..MaxCycles :
        RaisesBefore(h, c)
            ~> (cycle = c /\ pc = "process" /\ transactions[pos].hash = h)

\* C38: every record in the open, filled and canceled stores has an account
\* that is one of the wallets of the record's user_id: an OfferCreate
\* submitted by another account that only touches a user's wallet never
\* produces an offer record attributed to that user.
C38_RecordAccountIsOwnWallet ==
    \A s \in {"open_orders", "filled_orders", "canceled_orders"} : \A h \in DOMAIN db[s] :
        db[s][h]["account"] \in user_wallets(db[s][h]["user_id"])

\* C39: cancellation of the driver task takes effect only at a ledger
\* request or a sleep, never in the middle of the processing of one
\* transaction or of one reconciled offer: in every state observable after
\* cancellation, no offer has a terminal record and an open record.
C39_CancelledStoreIsSettled ==
    pc = "cancelled" =>
        \A h \in PoolHashes : h \in Terminal(db) => h \notin DOMAIN db.open_orders

\* C40: a processed transaction is written to the transaction store iff it
\* carries the configured source tag or its type is OfferCancel (the
\* lifecycle records are written regardless of the tag).
C40_StoredIffTaggedOrCancel ==
    Analysed =>
        (Entry1.hash \in DOMAIN db.transactions
            <=> \/ has_source_tag(Entry1, SOURCE_TAG)
                \/ Entry1.tx_json.TransactionType = "OfferCancel")

=============================================================================
